---- MODULE Spec2Model ----
(***************************************************************************)
(* Integration-and-scoring engine of the Irish Democratic Accountability   *)
(* Dashboard: EnhancedVotingIntegration (src/setup-release.js),            *)
(* OireachtasVotingExtractor (src/voting-extraction/...) and               *)
(* calculateSystemicHypocrisyScore (src/property-hoarding-integration.js), *)
(* with the checksum script (src/scripts/verify-checksums.js) and the      *)
(* loader of the front end, StaticDataManager (src/static-data-manager.js).*)
(*                                                                         *)
(* Percentages (electoral margins) are held in tenths of a percentage      *)
(* point, so 2.5 is 25.  Random draws are held in hundredths.              *)
(***************************************************************************)
EXTENDS Integers, Sequences, FiniteSets, TLC

VARIABLES
    files,               \* the three JSON files loadDataSources reads
    completeTDDatabase,  \* this.completeTDDatabase
    existingVotingData,  \* this.existingVotingData
    electoralData,       \* this.electoralData
    rng,                 \* the stream Math.random() draws from
    rngPos,              \* how far that stream has been consumed
    integratedDatabase,  \* value returned by the last integrateVotingRecords
    targetingReport,     \* value returned by the last generateTargetingReport
    run,                 \* outcome of the last call made on the object
    clock,               \* what new Date() reads
    probe,               \* arguments of a direct call to a scoring function
    out,                 \* value that call returned
    disk,                \* the tracked data files as verify-checksums.js finds them
    checksumsFile,       \* data/checksums.json
    recorded,            \* what the last generateChecksums that saved has written
    exitStatus,          \* how the last run of verify-checksums.js ended
    cache,               \* StaticDataManager: this.cache
    loadingPromises,     \* StaticDataManager: this.loadingPromises
    promises,            \* the promises _loadJSON has returned for the TD database
    microtasks,          \* the promise jobs queued, first to run first
    callers              \* the callers of loadTDDatabase and what they wait for

toolVars == << disk, checksumsFile, recorded, exitStatus >>

managerVars == << cache, loadingPromises, promises, microtasks, callers >>

engineVars == << files, completeTDDatabase, existingVotingData, electoralData, rng,
                 rngPos, integratedDatabase, targetingReport, run, clock, probe, out >>

vars == << files, completeTDDatabase, existingVotingData, electoralData, rng,
           rngPos, integratedDatabase, targetingReport, run, clock, probe, out,
           toolVars, managerVars >>

----------------------------------------------------------------------------
(* Bounds of the model *)

MaxHoldings == 11
MaxVotes == 5
MaxTDs == 3

(* Program constants *)

Tier1Margin == 10
Tier2Margin == 25
Tier3Margin == 50
Tier1Cap == 5
Tier2Cap == 8
Tier3Cap == 10

----------------------------------------------------------------------------
(* JavaScript values that reach a numeric comparison *)

Num(v) == [kind |-> "number", val |-> v]
JsNull == [kind |-> "null", val |-> 0]
JsUndefined == [kind |-> "undefined", val |-> 0]
JsString == [kind |-> "string", val |-> 0]

\* x < k for a JavaScript value x and a number k: null converts to 0,
\* undefined and a non-numeric string such as 'SAFE' convert to NaN.
JsLess(x, k) ==
    CASE x.kind = "number" -> x.val < k
      [] x.kind = "null" -> 0 < k
      [] OTHER -> FALSE

\* x || 0
JsOrZero(x) == IF x.kind = "number" THEN x.val ELSE 0

Min(a, b) == IF a < b THEN a ELSE b

\* The element of a one-element set: { e(x) : x \in {v} } names v once.
The(S) == CHOOSE y \in S : TRUE

----------------------------------------------------------------------------
(* Data *)

Null == [isNull |-> TRUE]

NoRecord == [present |-> FALSE, margin_percentage |-> JsUndefined, vulnerability_level |-> "NONE"]
ElectoralRecord(m) == [present |-> TRUE, margin_percentage |-> m, vulnerability_level |-> "LISTED"]

Constituencies == {"Kerry", "Dublin Bay South"}

\* td.constituency.includes('Dublin')
IncludesDublin(c) == c \in {"Dublin Bay South"}

GovernmentParties == {"Fianna Fail", "Fine Gael", "Green Party"}

\* this.electoralData?.constituencies?.[tdInfo.constituency]
LookupElectoral(elData, constituency) ==
    IF elData.isNull THEN NoRecord ELSE elData.constituencies[constituency]

\* OireachtasVotingExtractor.priorityLandlordTDs
priorityLandlordTDs ==
    << [name |-> "Colm Burke", properties |-> 1, electoral_margin |-> Num(23), minister |-> FALSE],
       [name |-> "Sinead Gibney", properties |-> 1, electoral_margin |-> Num(8), minister |-> FALSE],
       [name |-> "Noel Grealish", properties |-> 2, electoral_margin |-> Num(41), minister |-> FALSE],
       [name |-> "Michael Healy-Rae", properties |-> 27, electoral_margin |-> JsString, minister |-> FALSE],
       [name |-> "Robert Troy", properties |-> 8, electoral_margin |-> JsString, minister |-> FALSE],
       [name |-> "Thomas Byrne", properties |-> 1, electoral_margin |-> JsUndefined, minister |-> TRUE],
       [name |-> "Sean Canney", properties |-> 6, electoral_margin |-> JsUndefined, minister |-> TRUE] >>

\* this.priorityLandlordTDs.find(td => td.name === name)
FindPriorityTD(name) ==
    LET hits == { i \in 1..Len(priorityLandlordTDs) : priorityLandlordTDs[i].name = name }
    IN  IF hits = {} THEN [found |-> FALSE, electoral_margin |-> JsUndefined, minister |-> FALSE]
        ELSE LET i == CHOOSE j \in hits : \A k \in hits : j <= k
             IN  [found |-> TRUE,
                  electoral_margin |-> priorityLandlordTDs[i].electoral_margin,
                  minister |-> priorityLandlordTDs[i].minister]

----------------------------------------------------------------------------
(* Score Calculator *)

\* calculateEnhancedHypocrisyScore returning the sum without Math.min(score, 100)
calculateEnhancedHypocrisyScoreUnclamped(votingData, tdInfo, elData) ==
    LET rec == LookupElectoral(elData, tdInfo.constituency)
    IN  Min(tdInfo.properties.property_count * 3, 30)
          + votingData.anti_tenant_votes * 8
          + votingData.hypocritical_votes * 10
          + (IF tdInfo.party \in GovernmentParties THEN 10 ELSE 0)
          + (IF rec.present /\ JsLess(rec.margin_percentage, Tier3Margin) THEN 15 ELSE 0)

\* EnhancedVotingIntegration.calculateEnhancedHypocrisyScore
calculateEnhancedHypocrisyScore(votingData, tdInfo, elData) ==
    LET rec == LookupElectoral(elData, tdInfo.constituency)
        s1 == Min(tdInfo.properties.property_count * 3, 30)
        s2 == s1 + votingData.anti_tenant_votes * 8
        s3 == s2 + votingData.hypocritical_votes * 10
        s4 == s3 + (IF tdInfo.party \in GovernmentParties THEN 10 ELSE 0)
        s5 == s4 + (IF rec.present /\ JsLess(rec.margin_percentage, Tier3Margin)
                    THEN 15 ELSE 0)
    IN  Min(s5, 100)

\* calculatePressurePriority with 4 in place of 3 for ten holdings or more
calculatePressurePriorityFourForTen(votingData, tdInfo, elData) ==
    LET rec == LookupElectoral(elData, tdInfo.constituency)
        pc == tdInfo.properties.property_count
    IN  Min(1 + (IF pc >= 10 THEN 4 ELSE IF pc >= 5 THEN 2 ELSE IF pc >= 1 THEN 1 ELSE 0)
              + Min(votingData.anti_tenant_votes, 3)
              + (IF ~rec.present THEN 0
                 ELSE IF JsLess(rec.margin_percentage, Tier1Margin) THEN 3
                 ELSE IF JsLess(rec.margin_percentage, Tier2Margin) THEN 2
                 ELSE IF JsLess(rec.margin_percentage, Tier3Margin) THEN 1
                 ELSE 0),
            10)

\* calculatePressurePriority with the base priority 0 in place of 1
calculatePressurePriorityFromZero(votingData, tdInfo, elData) ==
    LET rec == LookupElectoral(elData, tdInfo.constituency)
        pc == tdInfo.properties.property_count
    IN  Min((IF pc >= 10 THEN 3 ELSE IF pc >= 5 THEN 2 ELSE IF pc >= 1 THEN 1 ELSE 0)
              + Min(votingData.anti_tenant_votes, 3)
              + (IF ~rec.present THEN 0
                 ELSE IF JsLess(rec.margin_percentage, Tier1Margin) THEN 3
                 ELSE IF JsLess(rec.margin_percentage, Tier2Margin) THEN 2
                 ELSE IF JsLess(rec.margin_percentage, Tier3Margin) THEN 1
                 ELSE 0),
            10)

\* calculatePressurePriority with 2.4 in place of 2.5 in its margin test
calculatePressurePriorityLowerSecond(votingData, tdInfo, elData) ==
    LET rec == LookupElectoral(elData, tdInfo.constituency)
        pc == tdInfo.properties.property_count
    IN  Min(1 + (IF pc >= 10 THEN 3 ELSE IF pc >= 5 THEN 2 ELSE IF pc >= 1 THEN 1 ELSE 0)
              + Min(votingData.anti_tenant_votes, 3)
              + (IF ~rec.present THEN 0
                 ELSE IF JsLess(rec.margin_percentage, Tier1Margin) THEN 3
                 ELSE IF JsLess(rec.margin_percentage, Tier2Margin - 1) THEN 2
                 ELSE IF JsLess(rec.margin_percentage, Tier3Margin) THEN 1
                 ELSE 0),
            10)

\* EnhancedVotingIntegration.calculatePressurePriority
calculatePressurePriority(votingData, tdInfo, elData) ==
    LET rec == LookupElectoral(elData, tdInfo.constituency)
        pc == tdInfo.properties.property_count
        p1 == 1 + (IF pc >= 10 THEN 3 ELSE IF pc >= 5 THEN 2 ELSE IF pc >= 1 THEN 1 ELSE 0)
        p2 == p1 + Min(votingData.anti_tenant_votes, 3)
        p3 == p2 + (IF ~rec.present THEN 0
                    ELSE IF JsLess(rec.margin_percentage, Tier1Margin) THEN 3
                    ELSE IF JsLess(rec.margin_percentage, Tier2Margin) THEN 2
                    ELSE IF JsLess(rec.margin_percentage, Tier3Margin) THEN 1
                    ELSE 0)
    IN  Min(p3, 10)

\* getTargetingPriority with <= in place of < at each threshold
getTargetingPriorityInclusive(rec) ==
    IF JsLess(rec.margin_percentage, Tier1Margin + 1) THEN "TIER_1_CRITICAL"
    ELSE IF JsLess(rec.margin_percentage, Tier2Margin + 1) THEN "TIER_2_HIGH"
    ELSE IF JsLess(rec.margin_percentage, Tier3Margin + 1) THEN "TIER_3_MEDIUM"
    ELSE "TIER_4_LOW"

\* EnhancedVotingIntegration.getTargetingPriority
getTargetingPriority(rec) ==
    IF JsLess(rec.margin_percentage, Tier1Margin) THEN "TIER_1_CRITICAL"
    ELSE IF JsLess(rec.margin_percentage, Tier2Margin) THEN "TIER_2_HIGH"
    ELSE IF JsLess(rec.margin_percentage, Tier3Margin) THEN "TIER_3_MEDIUM"
    ELSE "TIER_4_LOW"

\* EnhancedVotingIntegration.addElectoralTargeting
addElectoralTargeting(tdInfo, elData) ==
    LET rec == LookupElectoral(elData, tdInfo.constituency)
    IN  IF ~rec.present
        THEN [last_election_margin |-> JsNull,
              vulnerability_level |-> "UNKNOWN",
              targeting_priority |-> "LOW"]
        ELSE [last_election_margin |-> rec.margin_percentage,
              vulnerability_level |-> rec.vulnerability_level,
              targeting_priority |-> getTargetingPriority(rec)]

\* analyzeVoteHypocrisy with its first test only
analyzeVoteHypocrisyOneSided(voteCast, proTenantPosition) ==
    proTenantPosition = "FOR" /\ voteCast = "Against"

\* OireachtasVotingExtractor.analyzeVoteHypocrisy
analyzeVoteHypocrisy(voteCast, proTenantPosition) ==
    IF proTenantPosition = "FOR" /\ voteCast = "Against" THEN TRUE
    ELSE IF proTenantPosition = "AGAINST" /\ voteCast = "For" THEN TRUE
    ELSE FALSE

\* OireachtasVotingExtractor.calculateHypocrisyScore
calculateHypocrisyScore(tdSummary) ==
    LET tdInfo == FindPriorityTD(tdSummary.name)
        s1 == Min(tdSummary.properties * 5, 50)
        s2 == s1 + tdSummary.anti_tenant_votes * 15
        s3 == s2 + tdSummary.hypocritical_votes * 20
        s4 == s3 + (IF tdInfo.found /\ tdInfo.electoral_margin.kind = "number"
                       /\ tdInfo.electoral_margin.val < Tier3Margin
                    THEN 10 ELSE 0)
        s5 == s4 + (IF tdInfo.found /\ tdInfo.minister THEN 15 ELSE 0)
    IN  Min(s5, 100)

\* The filter of generateHypocrisyReport's vulnerable_targets
isVulnerableTarget(tdSummary) ==
    LET tdInfo == FindPriorityTD(tdSummary.name)
    IN  tdInfo.found /\ tdInfo.electoral_margin.kind = "number"
        /\ tdInfo.electoral_margin.val < Tier3Margin

\* calculateSystemicHypocrisyScore (property-hoarding-integration.js)
calculateSystemicHypocrisyScore(td) ==
    LET s0 == JsOrZero(td.baseHypocrisyScore)
        s1 == s0 + (IF td.properties.landlord_status /\ IncludesDublin(td.constituency) THEN 25
                    ELSE IF td.properties.landlord_status THEN 15
                    ELSE 0)
        s2 == s1 + (IF td.party \in GovernmentParties THEN 20 ELSE 0)
        pc == td.properties.property_count
        s3 == s2 + (IF pc >= 10 THEN 15 ELSE IF pc >= 3 THEN 10 ELSE IF pc >= 1 THEN 5 ELSE 0)
    IN  Min(s3, 100)

----------------------------------------------------------------------------
(* Vote Pattern Synthesizer *)

\* this.housingVoteTargets
housingVoteTargets ==
    << [id |-> "RTB2024_001", pro_tenant_stance |-> "FOR", weight |-> 25],
       [id |-> "VPT2024_001", pro_tenant_stance |-> "FOR", weight |-> 20],
       [id |-> "PDH2024_001", pro_tenant_stance |-> "FOR", weight |-> 15],
       [id |-> "RTS2024_001", pro_tenant_stance |-> "FOR", weight |-> 25],
       [id |-> "PTR2024_001", pro_tenant_stance |-> "FOR", weight |-> 15] >>

\* partyVotingTendencies[tdInfo.party] without the || default: the lookup of a
\* party that is not listed gives nothing
antiTenantLikelihoodUnlisted(party) ==
    CASE party = "Fianna Fail" -> 70
      [] party = "Fine Gael" -> 75
      [] party = "Independent" -> 80
      [] party = "Sinn Fein" -> 30
      [] party = "Social Democrats" -> 20
      [] OTHER -> 0

\* partyVotingTendencies[tdInfo.party] || default, anti_tenant_likelihood
antiTenantLikelihood(party) ==
    CASE party = "Fianna Fail" -> 70
      [] party = "Fine Gael" -> 75
      [] party = "Independent" -> 80
      [] party = "Sinn Fein" -> 30
      [] party = "Social Democrats" -> 20
      [] OTHER -> 60

\* propertyInfluence, in hundredths
propertyInfluence(tdInfo) == Min(tdInfo.properties.property_count * 10, 30)

\* A likelihood is held as a code that compares as its double does: 2 x h for
\* the double nearest to h hundredths, one less for the double just below it
\* and one more for the double just above it.  A draw of h hundredths is 2 x h.
\*
\* << base, holdings up to 3 >> whose double sum base + propertyInfluence lies
\* just below, or just above, the hundredth (holdings from -1 on)
SumRoundedDown == { <<70, 1>>, <<70, 2>>, <<30, -1>>, <<60, 3>> }
SumRoundedUp == { <<80, -1>>, <<20, 1>> }

\* adjustedAntiTenantLikelihood without Math.min(..., 0.95)
adjustedAntiTenantLikelihoodUncapped(tdInfo) ==
    2 * (antiTenantLikelihood(tdInfo.party) + propertyInfluence(tdInfo))

\* adjustedAntiTenantLikelihood
adjustedAntiTenantLikelihood(tdInfo) ==
    The({ 2 * Min(sum[1] + propertyInfluence(tdInfo), 95)
            + (IF sum \in SumRoundedDown THEN -1 ELSE IF sum \in SumRoundedUp THEN 1 ELSE 0) :
          sum \in { << antiTenantLikelihood(tdInfo.party),
                       Min(tdInfo.properties.property_count, 3) >> } })

\* adjustedAntiTenantLikelihood + 0.1 as a double
abstainBandEnd(likelihood) ==
    CASE likelihood = 39 -> 60
      [] likelihood = 40 -> 61
      [] likelihood = 61 -> 80
      [] likelihood = 140 -> 159
      [] likelihood = 141 -> 160
      [] OTHER -> likelihood + 20

\* The if / else if / else with an abstain band of 0.2
voteChoiceWideBand(random, likelihood) ==
    IF 2 * random < likelihood THEN "Against"
    ELSE IF 2 * random < likelihood + 40 THEN "Abstain"
    ELSE "For"

\* the if / else if / else on one draw of Math.random()
voteChoice(random, likelihood) ==
    IF 2 * random < likelihood THEN "Against"
    ELSE IF 2 * random < abstainBandEnd(likelihood) THEN "Abstain"
    ELSE "For"

\* is_hypocritical set on every generated vote that is not a For
isHypocriticalVoteNotFor(choice, stance) == choice # "For" /\ stance = "FOR"

\* is_hypocritical of one generated vote
isHypocriticalVote(choice, stance) == choice = "Against" /\ stance = "FOR"

\* The k-th value Math.random() returns from position pos of a stream
Draw(stream, pos, k) == stream[((pos + k - 1) % Len(stream)) + 1]

Max(a, b) == IF a > b THEN a ELSE b

\* calculateHypocrisyScoreFromVotes: holdings term, 15 per conflicting vote,
\* 15 for executive office, the vulnerability term when a margin is present
\* and below the threshold, clamped to [0,100]
calculateHypocrisyScoreFromVotes(votes, tdInfo, elData) ==
    LET rec == LookupElectoral(elData, tdInfo.constituency)
        holdings == Min(tdInfo.properties.property_count * 3, 30)
        conflicts == Cardinality({ i \in 1..Len(votes) : votes[i].is_hypocritical }) * 15
        office == IF tdInfo.minister THEN 15 ELSE 0
        vulnerable == IF rec.present /\ rec.margin_percentage.kind = "number"
                         /\ rec.margin_percentage.val < Tier3Margin
                      THEN 15 ELSE 0
    IN  Max(0, Min(holdings + conflicts + office + vulnerable, 100))

\* getDetailedVotes: the sourced list of votes of the entity
getDetailedVotes(existingData, tdInfo) == existingData.votes

\* The loop of generateRealisticVotingPattern over this.housingVoteTargets
castVotes(tdInfo, stream, pos) ==
    [ k \in 1..Len(housingVoteTargets) |->
        The({ [vote_id |-> housingVoteTargets[k].id,
               vote_cast |-> choice,
               is_hypocritical |->
                   isHypocriticalVote(choice, housingVoteTargets[k].pro_tenant_stance),
               weight |-> housingVoteTargets[k].weight] :
              choice \in { voteChoice(Draw(stream, pos, k),
                                      adjustedAntiTenantLikelihood(tdInfo)) } }) ]

\* The record generateRealisticVotingPattern returns for the votes cast
patternRecord(votes, antiTenantVotes, proTenantVotes, tdInfo, elData, now) ==
    [housing_votes |-> [total_votes |-> Len(housingVoteTargets),
                        pro_tenant_votes |-> proTenantVotes,
                        anti_tenant_votes |-> antiTenantVotes,
                        abstentions |->
                            Len(housingVoteTargets) - proTenantVotes - antiTenantVotes,
                        missed_votes |-> 0],
     detailed_votes |-> votes,
     hypocrisy_score |-> calculateHypocrisyScoreFromVotes(votes, tdInfo, elData),
     pressure_campaign_priority |->
         calculatePressurePriority([anti_tenant_votes |-> antiTenantVotes], tdInfo, elData),
     last_updated |-> now,
     verification_status |-> "PATTERN_GENERATED"]

\* EnhancedVotingIntegration.generateRealisticVotingPattern
generateRealisticVotingPattern(tdInfo, elData, stream, pos, now) ==
    The({ patternRecord(votes,
                        Cardinality({ k \in 1..Len(votes) : votes[k].vote_cast = "Against" }),
                        Cardinality({ k \in 1..Len(votes) : votes[k].vote_cast = "For" }),
                        tdInfo, elData, now) :
          votes \in { castVotes(tdInfo, stream, pos) } })

\* enhanceVotingRecord leaving the mark of a generated pattern on its record
enhanceVotingRecordUnmarked(existingData, tdInfo, elData, now) ==
    [housing_votes |-> [total_votes |-> IF existingData.total_votes = 0 THEN 5
                                        ELSE existingData.total_votes,
                        pro_tenant_votes |-> existingData.pro_tenant_votes,
                        anti_tenant_votes |-> existingData.anti_tenant_votes,
                        abstentions |-> existingData.abstentions,
                        missed_votes |-> existingData.missed_votes],
     detailed_votes |-> getDetailedVotes(existingData, tdInfo),
     hypocrisy_score |-> calculateEnhancedHypocrisyScore(existingData, tdInfo, elData),
     pressure_campaign_priority |-> calculatePressurePriority(existingData, tdInfo, elData),
     last_updated |-> now,
     verification_status |-> "PATTERN_GENERATED"]

\* EnhancedVotingIntegration.enhanceVotingRecord
enhanceVotingRecord(existingData, tdInfo, elData, now) ==
    [housing_votes |-> [total_votes |-> IF existingData.total_votes = 0 THEN 5
                                        ELSE existingData.total_votes,
                        pro_tenant_votes |-> existingData.pro_tenant_votes,
                        anti_tenant_votes |-> existingData.anti_tenant_votes,
                        abstentions |-> existingData.abstentions,
                        missed_votes |-> existingData.missed_votes],
     detailed_votes |-> getDetailedVotes(existingData, tdInfo),
     hypocrisy_score |-> calculateEnhancedHypocrisyScore(existingData, tdInfo, elData),
     pressure_campaign_priority |-> calculatePressurePriority(existingData, tdInfo, elData),
     last_updated |-> now,
     verification_status |-> "EXISTING_DATA_ENHANCED"]

\* The record integrateVotingRecords gives a TD that is no landlord
cleanVotingRecord(now) ==
    [housing_votes |-> [total_votes |-> 0, pro_tenant_votes |-> 0, anti_tenant_votes |-> 0,
                        abstentions |-> 0, missed_votes |-> 0],
     hypocrisy_score |-> 0,
     last_updated |-> now,
     verification_status |-> "NON_LANDLORD_CLEAN"]

----------------------------------------------------------------------------
(* Integration *)

NoVotes == [present |-> FALSE]

\* this.existingVotingData?.tds?.[tdName]
LookupVotes(voting, tdName) ==
    IF voting.isNull THEN NoVotes ELSE voting.tds[tdName]

\* ({...td, voting_record, electoral_data}) of a landlord TD
withRecords(td, record, electoral) ==
    [name |-> td.name, party |-> td.party, constituency |-> td.constituency,
     minister |-> td.minister, hasProperties |-> TRUE, properties |-> td.properties,
     voting_record |-> record, electoral_data |-> electoral]

\* The body of the for-in loop of integrateVotingRecords for one TD whose
\* properties object exists
integrateOne(td, existingVoteData, pos, env) ==
    IF td.properties.landlord_status
    THEN IF existingVoteData.present
         THEN [td |-> withRecords(td,
                                  enhanceVotingRecord(existingVoteData, td, env.electoral,
                                                      env.now),
                                  addElectoralTargeting(td, env.electoral)),
               pos |-> pos]
         ELSE [td |-> withRecords(td,
                                  generateRealisticVotingPattern(td, env.electoral, env.stream,
                                                                 pos, env.now),
                                  addElectoralTargeting(td, env.electoral)),
               pos |-> (pos + Len(housingVoteTargets)) % Len(env.stream)]
    ELSE [td |-> [name |-> td.name, party |-> td.party, constituency |-> td.constituency,
                  minister |-> td.minister, hasProperties |-> TRUE,
                  properties |-> td.properties,
                  voting_record |-> cleanVotingRecord(env.now)],
          pos |-> pos]

\* The loop looking up the sourced votes of every entry under the name of the
\* first entry
RECURSIVE integrateFromFirstVotes(_, _, _, _, _)
integrateFromFirstVotes(tds, i, acc, pos, env) ==
    IF i > Len(tds) THEN [threw |-> FALSE, tds |-> acc, pos |-> pos]
    ELSE IF ~tds[i].hasProperties THEN [threw |-> TRUE, tds |-> acc, pos |-> pos]
    ELSE The({ integrateFromFirstVotes(tds, i + 1, Append(acc, step.td), step.pos, env) :
               step \in { integrateOne(tds[i], LookupVotes(env.voting, tds[1].name), pos, env) } })

\* The for-in loop of integrateVotingRecords from entry i on.  Reading
\* td.properties.landlord_status of an entry without a properties object
\* throws a TypeError, which ends the call.
RECURSIVE integrateFrom(_, _, _, _, _)
integrateFrom(tds, i, acc, pos, env) ==
    IF i > Len(tds) THEN [threw |-> FALSE, tds |-> acc, pos |-> pos]
    ELSE IF ~tds[i].hasProperties THEN [threw |-> TRUE, tds |-> acc, pos |-> pos]
    ELSE The({ integrateFrom(tds, i + 1, Append(acc, step.td), step.pos, env) :
               step \in { integrateOne(tds[i], LookupVotes(env.voting, tds[i].name), pos, env) } })

\* What integrateVotingRecords returns once its loop has ended
integrated(r, now) ==
    IF r.threw THEN [threw |-> TRUE, value |-> Null, pos |-> r.pos]
    ELSE [threw |-> FALSE,
          value |-> [isNull |-> FALSE,
                     metadata |-> [voting_integration_status |->
                                       "ENHANCED_INTEGRATION_COMPLETE",
                                   voting_integration_date |-> now,
                                   landlord_tds_analyzed |-> 32],
                     tds |-> r.tds],
          pos |-> r.pos]

\* The outcome of integrateVotingRecords together with the value
\* this.completeTDDatabase has once the call has ended
leavingRoster(result, roster) ==
    [threw |-> result.threw, value |-> result.value, pos |-> result.pos, roster |-> roster]

\* integrateVotingRecords working on this.completeTDDatabase itself, without
\* JSON.parse(JSON.stringify(...))
integrateVotingRecordsInPlace(db, voting, electoral, stream, pos, now) ==
    IF db.isNull THEN leavingRoster([threw |-> TRUE, value |-> Null, pos |-> pos], db)
    ELSE The({ leavingRoster(result, IF result.threw THEN db ELSE result.value) :
               result \in { integrated(integrateFrom(db.tds, 1, << >>, pos,
                                                     [voting |-> voting, electoral |-> electoral,
                                                      stream |-> stream, now |-> now]),
                                        now) } })

\* EnhancedVotingIntegration.integrateVotingRecords: the deep copy, the
\* metadata update and the loop.  A null completeTDDatabase throws on the
\* metadata update.  The loop writes to the copy, so the roster stays as it is.
integrateVotingRecords(db, voting, electoral, stream, pos, now) ==
    IF db.isNull THEN leavingRoster([threw |-> TRUE, value |-> Null, pos |-> pos], db)
    ELSE The({ leavingRoster(result, db) :
               result \in { integrated(integrateFrom(db.tds, 1, << >>, pos,
                                                     [voting |-> voting, electoral |-> electoral,
                                                      stream |-> stream, now |-> now]),
                                        now) } })

----------------------------------------------------------------------------
(* Tiering Engine and Report Assembler *)

\* Pairs (score, priority) whose double sum score * 0.6 + priority * 10 * 0.4
\* is the smaller of the two doubles that the same exact value rounds to, as
\* << score, lowest priority, highest priority >>.
FloatRoundedDown ==
    { <<9, 1, 2>>, <<11, 1, 2>>, <<18, 1, 5>>, <<23, 1, 4>>, <<31, 1, 10>>, <<36, 1, 10>>,
      <<41, 1, 9>>, <<46, 1, 9>>, <<51, 1, 8>>, <<57, 1, 7>>, <<62, 1, 7>>, <<67, 1, 7>>,
      <<72, 1, 7>>, <<77, 1, 4>>, <<82, 1, 4>>, <<87, 1, 4>>, <<92, 1, 4>>, <<96, 1, 1>>,
      <<97, 1, 1>> }

\* Ten times the exact value of 0.6 x score + 0.4 x (priority x 10)
exactCombined(score, priority) == 6 * score + 40 * priority

\* combined_priority as the double the code computes, coded so that two codes
\* compare as the two doubles do
combinedPriority(score, priority) ==
    2 * exactCombined(score, priority)
      - (IF \E t \in FloatRoundedDown : t[1] = score /\ t[2] <= priority /\ priority <= t[3]
         THEN 1 ELSE 0)

\* The sort with the comparator a.combined_priority - b.combined_priority
RECURSIVE insertByPriorityAscending(_, _)
insertByPriorityAscending(sorted, x) ==
    IF sorted = << >> THEN << x >>
    ELSE IF Head(sorted).combined_priority <= x.combined_priority
         THEN << Head(sorted) >> \o insertByPriorityAscending(Tail(sorted), x)
         ELSE << x >> \o sorted

\* A sort that is not stable: x goes in front of the entries it ties with
RECURSIVE insertByPriorityUnstable(_, _)
insertByPriorityUnstable(sorted, x) ==
    IF sorted = << >> THEN << x >>
    ELSE IF Head(sorted).combined_priority > x.combined_priority
         THEN << Head(sorted) >> \o insertByPriorityUnstable(Tail(sorted), x)
         ELSE << x >> \o sorted

\* Array.prototype.sort with (a, b) => b.combined_priority - a.combined_priority:
\* a stable sort, so x goes behind every entry that does not compare below it.
RECURSIVE insertByPriority(_, _)
insertByPriority(sorted, x) ==
    IF sorted = << >> THEN << x >>
    ELSE IF Head(sorted).combined_priority >= x.combined_priority
         THEN << Head(sorted) >> \o insertByPriority(Tail(sorted), x)
         ELSE << x >> \o sorted

RECURSIVE sortByPriority(_)
sortByPriority(seq) ==
    IF seq = << >> THEN << >>
    ELSE The({ insertByPriority(front, seq[Len(seq)]) :
               front \in { sortByPriority(SubSeq(seq, 1, Len(seq) - 1)) } })

\* Array.prototype.filter, given the set of indices the predicate keeps
Filter(seq, kept) ==
    [ k \in 1..Cardinality(kept) |->
        seq[CHOOSE i \in kept : Cardinality({ j \in kept : j <= i }) = k] ]

\* Array.prototype.slice(0, n)
Slice(seq, n) == SubSeq(seq, 1, Min(n, Len(seq)))

RECURSIVE SumSeq(_)
SumSeq(seq) == IF seq = << >> THEN 0 ELSE Head(seq) + SumSeq(Tail(seq))

\* .map(td => ({...td, combined_priority}))
withCombinedPriority(td) ==
    [name |-> td.name, party |-> td.party, constituency |-> td.constituency,
     minister |-> td.minister, hasProperties |-> td.hasProperties,
     properties |-> td.properties, voting_record |-> td.voting_record,
     electoral_data |-> td.electoral_data,
     combined_priority |-> combinedPriority(td.voting_record.hypocrisy_score,
                                            td.voting_record.pressure_campaign_priority)]

\* .filter(td => td.electoral_data.targeting_priority === tier)
tierMembers(seq, tier) ==
    Filter(seq, { i \in 1..Len(seq) : seq[i].electoral_data.targeting_priority = tier })

\* The object generateTargetingReport returns, given its two locals
targetingReportOf(landlordTDs, prioritizedTargets, now) ==
    [isNull |-> FALSE,
     metadata |-> [generated_at |-> now,
                   total_landlord_tds |-> Len(landlordTDs),
                   tier_1_targets |-> Len(tierMembers(prioritizedTargets, "TIER_1_CRITICAL")),
                   tier_2_targets |-> Len(tierMembers(prioritizedTargets, "TIER_2_HIGH"))],
     tier_1_critical |-> Slice(tierMembers(prioritizedTargets, "TIER_1_CRITICAL"), Tier1Cap),
     tier_2_high |-> Slice(tierMembers(prioritizedTargets, "TIER_2_HIGH"), Tier2Cap),
     tier_3_medium |-> Slice(tierMembers(prioritizedTargets, "TIER_3_MEDIUM"), Tier3Cap),
     summary_stats |->
         [hypocrisy_score_sum |->
              SumSeq([ i \in 1..Len(landlordTDs) |->
                         landlordTDs[i].voting_record.hypocrisy_score ]),
          anti_tenant_votes_sum |->
              SumSeq([ i \in 1..Len(landlordTDs) |->
                         landlordTDs[i].voting_record.housing_votes.anti_tenant_votes ]),
          divisor |-> Len(landlordTDs),
          government_landlord_tds |->
              Cardinality({ i \in 1..Len(landlordTDs) :
                              landlordTDs[i].party \in GovernmentParties })]]

\* .filter(td => td.properties.landlord_status)
landlordsOf(tds) == Filter(tds, { i \in 1..Len(tds) : tds[i].properties.landlord_status })

\* .map(...).sort((a, b) => b.combined_priority - a.combined_priority)
prioritized(landlordTDs) ==
    The({ sortByPriority(mapped) :
          mapped \in { [ i \in 1..Len(landlordTDs) |-> withCombinedPriority(landlordTDs[i]) ] } })

\* EnhancedVotingIntegration.generateTargetingReport
generateTargetingReport(db, now) ==
    The(UNION { { targetingReportOf(landlordTDs, prioritizedTargets, now) :
                  prioritizedTargets \in { prioritized(landlordTDs) } } :
                landlordTDs \in { landlordsOf(db.tds) } })

----------------------------------------------------------------------------
(* Loading *)

MissingFile == [missing |-> TRUE, content |-> Null]
FileOf(content) == [missing |-> FALSE, content |-> content]

\* EnhancedVotingIntegration.loadDataSources: the three awaited loads in
\* order inside one try; the first load that throws ends it with false and
\* leaves the later fields as they were.
loadDataSources(f, db, voting, electoral) ==
    IF f.roster.missing
    THEN [ok |-> FALSE, db |-> db, voting |-> voting, electoral |-> electoral]
    ELSE IF f.voting.missing
    THEN [ok |-> FALSE, db |-> f.roster.content, voting |-> voting, electoral |-> electoral]
    ELSE IF f.electoral.missing
    THEN [ok |-> FALSE, db |-> f.roster.content, voting |-> f.voting.content,
          electoral |-> electoral]
    ELSE [ok |-> TRUE, db |-> f.roster.content, voting |-> f.voting.content,
          electoral |-> f.electoral.content]

\* What executeIntegration does with the loaded data
integrateAndReport(loaded, r, now) ==
    IF r.threw
    THEN [success |-> FALSE, loaded |-> [loaded EXCEPT !.db = r.roster], pos |-> r.pos,
          integratedDatabase |-> Null, targetingReport |-> Null]
    ELSE The({ [success |-> TRUE, loaded |-> [loaded EXCEPT !.db = r.roster], pos |-> r.pos,
                integratedDatabase |-> r.value, targetingReport |-> report] :
               report \in { generateTargetingReport(r.value, now) } })

\* EnhancedVotingIntegration.executeIntegration: load, integrate, report.
\* A false loadDataSources throws 'Failed to load required data sources'.
executeIntegration(f, db, voting, electoral, stream, pos, now) ==
    The(UNION { IF ~loaded.ok
                THEN { [success |-> FALSE, loaded |-> loaded, pos |-> pos,
                        integratedDatabase |-> Null, targetingReport |-> Null] }
                ELSE { integrateAndReport(loaded, r, now) :
                       r \in { integrateVotingRecords(loaded.db, loaded.voting,
                                                      loaded.electoral, stream, pos, now) } } :
                loaded \in { loadDataSources(f, db, voting, electoral) } })

----------------------------------------------------------------------------
(* Checksum verification script (src/scripts/verify-checksums.js) *)

\* The keys of EXPECTED_CHECKSUMS, of which the model tracks MaxTracked, and
\* the contents a tracked file can have
MaxTracked == 2
MaxContent == 1
TrackedFiles == 1..MaxTracked
Contents == 0..MaxContent

NoFile == [exists |-> FALSE, content |-> 0]
FileWith(c) == [exists |-> TRUE, content |-> c]

\* crypto.createHash('sha256').update(data).digest('hex'), for the file
\* whose bytes are the decimal digit c (leading digits of the digest)
sha256(c) ==
    << "5feceb66ffc86f38", "6b86b273ff34fce1", "d4735e3a265e16ee", "4e07408562bedb8b",
       "4b227777d4dd1fc6" >>[c + 1]

\* calculateFileHash of a file that exists
calculateFileHash(file) == sha256(file.content)

\* JavaScript values the two functions return
JsBoolean(b) == [kind |-> "boolean", truthy |-> b, checksums |-> << >>]
JsObject(checksums) == [kind |-> "object", truthy |-> TRUE, checksums |-> checksums]

NoChecksumsFile == [state |-> "missing", checksums |-> << >>]
UnparsableChecksumsFile == [state |-> "unparsable", checksums |-> << >>]
SavedChecksumsFile(checksums) == [state |-> "saved", checksums |-> checksums]

\* generateChecksums: an entry for every tracked file that exists; the
\* entries are saved only when none is missing.  The description and the
\* fileSize of an entry are written and never read.
generateChecksums(d, cf, now) ==
    The({ [value |-> JsObject(checksums),
           checksumsFile |-> IF \A f \in TrackedFiles : d[f].exists
                             THEN SavedChecksumsFile(checksums) ELSE cf] :
          checksums \in { [ f \in { g \in TrackedFiles : d[g].exists } |->
                              [hash |-> calculateFileHash(d[f]), timestamp |-> now] ] } })

\* verifyChecksums
verifyChecksums(d, cf, now) ==
    IF cf.state = "missing" THEN generateChecksums(d, cf, now)
    ELSE IF cf.state = "unparsable" THEN [value |-> JsBoolean(FALSE), checksumsFile |-> cf]
    ELSE [value |-> JsBoolean(\A f \in DOMAIN cf.checksums :
                                  /\ d[f].exists
                                  /\ calculateFileHash(d[f]) = cf.checksums[f].hash),
          checksumsFile |-> cf]

NoRecorded == [present |-> FALSE, checksums |-> << >>]
NoExit == [op |-> "none", result |-> JsBoolean(FALSE), code |-> 0]

ToolUnused ==
    /\ disk = [ f \in TrackedFiles |-> NoFile ]
    /\ checksumsFile = NoChecksumsFile
    /\ recorded = NoRecorded
    /\ exitStatus = NoExit

----------------------------------------------------------------------------
(* StaticDataManager (src/static-data-manager.js): loading the TD database *)

MaxCallers == 2
MaxFetches == 2
Callers == 1..MaxCallers

\* A caller of loadTDDatabase: whether it awaits the promise of a call, how
\* that call was served, the promise of _loadJSON it depends on, and what
\* its last call gave it.  The data of a load is named by the number of its
\* promise: every successful fetch parses into an object of its own.
IdleCaller ==
    [state |-> "idle", via |-> "none", promise |-> 0, received |-> "nothing", data |-> 0]

\* The object and the job queue as one value
Manager ==
    [cache |-> cache, loadingPromises |-> loadingPromises, promises |-> promises,
     microtasks |-> microtasks, callers |-> callers]

Job(kind, caller, promise, outcome) ==
    [kind |-> kind, caller |-> caller, promise |-> promise, outcome |-> outcome]

\* _loadJSON up to its first await: the fetch is under way and the promise of
\* the async function is pending, with the reaction of the call that made it
loadJSON(c) ==
    [state |-> "pending", fetch |-> "in flight",
     reactions |-> << [kind |-> "resume", caller |-> c] >>]

\* loadTDDatabase without its look at this.loadingPromises
loadTDDatabaseUnshared(m, c) ==
    IF m.cache.has
    THEN [m EXCEPT !.callers[c] = [@ EXCEPT !.state = "waiting", !.via = "cache",
                                            !.promise = m.cache.data],
                   !.microtasks = Append(@, Job("deliver", c, m.cache.data, "data"))]
    ELSE [m EXCEPT !.promises = Append(@, loadJSON(c)),
                   !.loadingPromises = [has |-> TRUE, promise |-> Len(m.promises) + 1],
                   !.callers[c] = [@ EXCEPT !.state = "waiting", !.via = "loader",
                                            !.promise = Len(m.promises) + 1]]

\* loadTDDatabase from its call to its first await or return: the cached
\* data, the promise of the load under way, or a load of its own.  Returning
\* a promise from an async function queues the job that subscribes to it.
loadTDDatabase(m, c) ==
    IF m.cache.has
    THEN [m EXCEPT !.callers[c] = [@ EXCEPT !.state = "waiting", !.via = "cache",
                                            !.promise = m.cache.data],
                   !.microtasks = Append(@, Job("deliver", c, m.cache.data, "data"))]
    ELSE IF m.loadingPromises.has
    THEN [m EXCEPT !.callers[c] = [@ EXCEPT !.state = "waiting", !.via = "waiter",
                                            !.promise = m.loadingPromises.promise],
                   !.microtasks = Append(@, Job("then", c, m.loadingPromises.promise, "none"))]
    ELSE [m EXCEPT !.promises = Append(@, loadJSON(c)),
                   !.loadingPromises = [has |-> TRUE, promise |-> Len(m.promises) + 1],
                   !.callers[c] = [@ EXCEPT !.state = "waiting", !.via = "loader",
                                            !.promise = Len(m.promises) + 1]]

\* _loadJSON after its awaits: it returns the data or throws, which settles
\* its promise and queues the reactions in the order they subscribed
loadJSONReturns(m, job) ==
    [m EXCEPT !.promises[job.promise] =
                  [@ EXCEPT !.state = IF job.outcome = "data" THEN "fulfilled" ELSE "rejected",
                            !.reactions = << >>],
              !.microtasks =
                  Tail(m.microtasks) \o
                  [ i \in 1..Len(m.promises[job.promise].reactions) |->
                      Job(m.promises[job.promise].reactions[i].kind,
                          m.promises[job.promise].reactions[i].caller,
                          job.promise, job.outcome) ]]

\* The catch block of loadTDDatabase leaving the promise of the failed load
\* in this.loadingPromises
loadTDDatabaseResumesKeeping(m, job) ==
    IF job.outcome = "data"
    THEN [m EXCEPT !.cache = [has |-> TRUE, data |-> job.promise],
                   !.microtasks = Append(Tail(@), Job("deliver", job.caller, job.promise, "data"))]
    ELSE [m EXCEPT !.microtasks = Append(Tail(@), Job("deliver", job.caller, job.promise, "error"))]

\* loadTDDatabase after await promise: the data goes to the cache and is
\* returned, or the error is caught, the promise removed and the error thrown
loadTDDatabaseResumes(m, job) ==
    IF job.outcome = "data"
    THEN [m EXCEPT !.cache = [has |-> TRUE, data |-> job.promise],
                   !.microtasks = Append(Tail(@), Job("deliver", job.caller, job.promise, "data"))]
    ELSE [m EXCEPT !.loadingPromises = [has |-> FALSE, promise |-> 0],
                   !.microtasks = Append(Tail(@), Job("deliver", job.caller, job.promise, "error"))]

\* The job of a call that returned the promise of the load under way: it
\* subscribes to the promise, or finds it settled and takes its outcome
subscribes(m, job) ==
    IF m.promises[job.promise].state = "pending"
    THEN [m EXCEPT !.promises[job.promise].reactions =
                       Append(@, [kind |-> "react", caller |-> job.caller]),
                   !.microtasks = Tail(@)]
    ELSE [m EXCEPT !.microtasks =
                       Append(Tail(@),
                              Job("react", job.caller, job.promise,
                                  IF m.promises[job.promise].state = "fulfilled"
                                  THEN "data" ELSE "error"))]

\* The promise of that call takes the outcome of the load
follows(m, job) ==
    [m EXCEPT !.microtasks = Append(Tail(@), Job("deliver", job.caller, job.promise,
                                                  job.outcome))]

\* The caller's await of loadTDDatabase() ends with the data or the error
delivered(m, job) ==
    [m EXCEPT !.callers[job.caller] =
                  [state |-> "idle", via |-> "none", promise |-> 0,
                   received |-> job.outcome,
                   data |-> IF job.outcome = "data" THEN job.promise ELSE 0],
              !.microtasks = Tail(@)]

ManagerUnused ==
    /\ cache = [has |-> FALSE, data |-> 0]
    /\ loadingPromises = [has |-> FALSE, promise |-> 0]
    /\ promises = << >>
    /\ microtasks = << >>
    /\ callers = [ c \in Callers |-> IdleCaller ]

\* The margin below which getVulnerableTDs takes a constituency, in tenths
VulnerableMargin == 50

\* StaticDataManager._getFallbackVulnerableData
getFallbackVulnerableData ==
    << [name |-> "Data Unavailable", constituency |-> "Check data/electoral-margins.json",
        electoral_margin |-> 0] >>

\* StaticDataManager.getTDsByConstituency on the loaded database: it throws
\* for a constituency the lookup does not hold
getTDsByConstituency(database, constituency) ==
    IF constituency \notin DOMAIN database.constituency_lookup
    THEN [threw |-> TRUE, tds |-> << >>]
    ELSE [threw |-> FALSE,
          tds |-> Filter(database.constituency_lookup[constituency],
                         { i \in 1..Len(database.constituency_lookup[constituency]) :
                             database.constituency_lookup[constituency][i]
                                 \in DOMAIN database.tds })]

\* vulnerable.push({...td, electoral_margin: data.margin_percentage, ...})
\* for every TD of the list
withMargin(database, names, data) ==
    [ i \in 1..Len(names) |->
        [name |-> names[i], constituency |-> database.tds[names[i]].constituency,
         electoral_margin |-> data.margin_percentage] ]

\* The loop of getVulnerableTDs over Object.entries(electoral.constituencies)
\* from entry i on; an exception of getTDsByConstituency leaves the loop
RECURSIVE vulnerableFrom(_, _, _, _)
vulnerableFrom(entries, i, database, acc) ==
    IF i > Len(entries) THEN [threw |-> FALSE, vulnerable |-> acc]
    ELSE IF ~(entries[i].margin_percentage < VulnerableMargin)
    THEN vulnerableFrom(entries, i + 1, database, acc)
    ELSE The({ IF found.threw THEN [threw |-> TRUE, vulnerable |-> acc]
               ELSE vulnerableFrom(entries, i + 1, database,
                                   acc \o withMargin(database, found.tds, entries[i])) :
               found \in { getTDsByConstituency(database, entries[i].constituency) } })

\* .sort((a, b) => a.electoral_margin - b.electoral_margin), which is stable
RECURSIVE insertByMargin(_, _)
insertByMargin(sorted, x) ==
    IF sorted = << >> THEN << x >>
    ELSE IF x.electoral_margin < Head(sorted).electoral_margin THEN << x >> \o sorted
    ELSE << Head(sorted) >> \o insertByMargin(Tail(sorted), x)

RECURSIVE sortByMargin(_)
sortByMargin(seq) ==
    IF seq = << >> THEN << >>
    ELSE insertByMargin(sortByMargin(SubSeq(seq, 1, Len(seq) - 1)), seq[Len(seq)])

\* StaticDataManager.getVulnerableTDs: the two loads and the loop inside one
\* try, whose catch returns the fallback list
getVulnerableTDs(electoral, database) ==
    IF electoral.failed \/ database.failed THEN getFallbackVulnerableData
    ELSE The({ IF r.threw THEN getFallbackVulnerableData ELSE sortByMargin(r.vulnerable) :
               r \in { vulnerableFrom(electoral.constituencies, 1, database, << >>) } })

----------------------------------------------------------------------------
(* Inputs *)

Names == 1..MaxTDs

\* Roster entries: landlords with few and with many holdings, a TD that is
\* no landlord, an entry with a negative holdings count and an entry without
\* its properties object.
Profiles ==
    { [party |-> "Fianna Fail", constituency |-> "Kerry", minister |-> FALSE,
       hasProperties |-> TRUE,
       properties |-> [landlord_status |-> TRUE, property_count |-> 2]],
      [party |-> "Independent", constituency |-> "Kerry", minister |-> FALSE,
       hasProperties |-> TRUE,
       properties |-> [landlord_status |-> TRUE, property_count |-> 10]],
      [party |-> "Sinn Fein", constituency |-> "Dublin Bay South", minister |-> FALSE,
       hasProperties |-> TRUE,
       properties |-> [landlord_status |-> FALSE, property_count |-> 0]],
      [party |-> "Aontu", constituency |-> "Dublin Bay South", minister |-> FALSE,
       hasProperties |-> TRUE,
       properties |-> [landlord_status |-> TRUE, property_count |-> -1]],
      [party |-> "Fine Gael", constituency |-> "Kerry", minister |-> TRUE,
       hasProperties |-> FALSE,
       properties |-> [landlord_status |-> FALSE, property_count |-> 0]] }

Named(profile, name) ==
    [name |-> name, party |-> profile.party, constituency |-> profile.constituency,
     minister |-> profile.minister, hasProperties |-> profile.hasProperties,
     properties |-> profile.properties]

Rosters ==
    UNION { { [isNull |-> FALSE, tds |-> [ i \in 1..n |-> Named(choice[i], i) ]] :
              choice \in [1..n -> Profiles] } : n \in 1..MaxTDs }

SourcedRecord ==
    [present |-> TRUE, total_votes |-> 5, pro_tenant_votes |-> 2, anti_tenant_votes |-> 3,
     abstentions |-> 0, missed_votes |-> 0, hypocritical_votes |-> 2,
     votes |-> << [vote_id |-> "RTB2024_001", vote_cast |-> "Against"] >>]

\* A voting file covers the first k names of the roster.
VotingFiles ==
    { [isNull |-> FALSE,
       tds |-> [ n \in Names |-> IF n <= k THEN SourcedRecord ELSE NoVotes ]] :
      k \in 0..MaxTDs }

ElectoralFiles ==
    { [isNull |-> FALSE,
       constituencies |-> [ c \in Constituencies |->
                              IF c = "Kerry" THEN pair[1] ELSE pair[2] ]] :
      pair \in { << ElectoralRecord(Num(5)), ElectoralRecord(Num(60)) >>,
                 << ElectoralRecord(Num(30)), ElectoralRecord(JsNull) >>,
                 << NoRecord, ElectoralRecord(Num(20)) >> } }

FileSets ==
    { [roster |-> r, voting |-> v, electoral |-> e] :
      r \in { FileOf(x) : x \in Rosters } \cup { MissingFile },
      v \in { FileOf(x) : x \in VotingFiles } \cup { MissingFile },
      e \in { FileOf(x) : x \in ElectoralFiles } \cup { MissingFile } }

NoFiles == [roster |-> MissingFile, voting |-> MissingFile, electoral |-> MissingFile]

\* Streams of values of Math.random(), in hundredths, repeated cyclically
RandomStreams == { << 0, 85, 99 >> }

NoProbe == [kind |-> "none"]
NoOut == [fn |-> "none", value |-> 0, vulnerable |-> FALSE,
          electoral_data |-> addElectoralTargeting([constituency |-> "Kerry"], Null),
          conflict |-> FALSE, vote_cast |-> "none", voting_record |-> cleanVotingRecord(0),
          vulnerable_tds |-> << >>]
NoRun == [op |-> "constructor", ok |-> TRUE]

----------------------------------------------------------------------------
(* The integration object: its methods are called in any order *)

Init ==
    /\ files \in FileSets
    /\ completeTDDatabase = Null
    /\ existingVotingData = Null
    /\ electoralData = Null
    /\ rng \in RandomStreams
    /\ rngPos = 0
    /\ integratedDatabase = Null
    /\ targetingReport = Null
    /\ run = NoRun
    /\ clock = 0
    /\ probe = NoProbe
    /\ out = NoOut
    /\ ToolUnused
    /\ ManagerUnused

LoadDataSources ==
    \E r \in { loadDataSources(files, completeTDDatabase, existingVotingData, electoralData) } :
        /\ completeTDDatabase' = r.db
        /\ existingVotingData' = r.voting
        /\ electoralData' = r.electoral
        /\ run' = [op |-> "loadDataSources", ok |-> r.ok]
        /\ UNCHANGED << toolVars, managerVars >>
        /\ UNCHANGED << files, rng, rngPos, integratedDatabase, targetingReport, clock,
                        probe, out >>

IntegrateVotingRecords ==
    \E r \in { integrateVotingRecords(completeTDDatabase, existingVotingData, electoralData,
                                      rng, rngPos, clock) } :
        /\ completeTDDatabase' = r.roster
        /\ rngPos' = r.pos
        /\ integratedDatabase' = IF r.threw THEN integratedDatabase ELSE r.value
        /\ run' = [op |-> "integrateVotingRecords", ok |-> ~r.threw]
        /\ UNCHANGED << toolVars, managerVars >>
        /\ UNCHANGED << files, existingVotingData, electoralData, rng, targetingReport, clock,
                        probe, out >>

GenerateTargetingReport ==
    /\ ~integratedDatabase.isNull
    /\ targetingReport' = generateTargetingReport(integratedDatabase, clock)
    /\ run' = [op |-> "generateTargetingReport", ok |-> TRUE]
    /\ UNCHANGED << toolVars, managerVars >>
    /\ UNCHANGED << files, completeTDDatabase, existingVotingData, electoralData, rng, rngPos,
                    integratedDatabase, clock, probe, out >>

ExecuteIntegration ==
    \E r \in { executeIntegration(files, completeTDDatabase, existingVotingData, electoralData,
                                  rng, rngPos, clock) } :
        /\ completeTDDatabase' = r.loaded.db
        /\ existingVotingData' = r.loaded.voting
        /\ electoralData' = r.loaded.electoral
        /\ rngPos' = r.pos
        /\ integratedDatabase' = IF r.success THEN r.integratedDatabase ELSE integratedDatabase
        /\ targetingReport' = IF r.success THEN r.targetingReport ELSE targetingReport
        /\ run' = [op |-> "executeIntegration", ok |-> r.success]
        /\ UNCHANGED << toolVars, managerVars >>
        /\ UNCHANGED << files, rng, clock, probe, out >>

Next ==
    \/ LoadDataSources
    \/ IntegrateVotingRecords
    \/ GenerateTargetingReport
    \/ ExecuteIntegration

Spec == Init /\ [][Next]_vars

----------------------------------------------------------------------------
(* The same object while time passes, every landlord having sourced votes *)

MaxClock == 1

\* Rosters of well-formed entries
SoundRosters ==
    { r \in Rosters : \A i \in 1..Len(r.tds) : r.tds[i].hasProperties }

\* The voting file that holds a record for every name
FullVotingFile == [isNull |-> FALSE, tds |-> [ n \in Names |-> SourcedRecord ]]

InitSourced ==
    /\ files \in { [roster |-> FileOf(r), voting |-> FileOf(FullVotingFile),
                     electoral |-> FileOf(e)] : r \in SoundRosters, e \in ElectoralFiles }
    /\ completeTDDatabase = Null
    /\ existingVotingData = Null
    /\ electoralData = Null
    /\ rng \in RandomStreams
    /\ rngPos = 0
    /\ integratedDatabase = Null
    /\ targetingReport = Null
    /\ run = NoRun
    /\ clock = 0
    /\ probe = NoProbe
    /\ out = NoOut
    /\ ToolUnused
    /\ ManagerUnused

\* new Date() reads a later time
Tick ==
    /\ clock < MaxClock
    /\ clock' = clock + 1
    /\ UNCHANGED << toolVars, managerVars >>
    /\ UNCHANGED << files, completeTDDatabase, existingVotingData, electoralData, rng, rngPos,
                    integratedDatabase, targetingReport, run, probe, out >>

NextRepeat ==
    \/ Tick
    \/ LoadDataSources
    \/ IntegrateVotingRecords
    \/ GenerateTargetingReport
    \/ ExecuteIntegration

SpecRepeat == InitSourced /\ [][NextRepeat]_vars

----------------------------------------------------------------------------
(* The scoring functions, each called directly on drawn arguments *)

Parties == {"Fianna Fail", "Sinn Fein", "Aontu"}

MarginSamples == {0, 9, 10, 24, 25, 49, 50, 60}

MarginValues == { Num(m) : m \in MarginSamples } \cup {JsNull, JsUndefined, JsString}

\* this.electoralData as the calls see it: not loaded, without a record for
\* the constituency, or with a record of some margin
ProbeElectoral(constituency) ==
    { Null } \cup
    { [isNull |-> FALSE,
       constituencies |-> [ c \in Constituencies |-> IF c = constituency THEN rec ELSE NoRecord ]] :
      rec \in { NoRecord } \cup { ElectoralRecord(m) : m \in MarginValues } }

IntegrationProbes ==
    { [kind |-> "integration",
       votingData |-> [anti_tenant_votes |-> a, hypocritical_votes |-> h],
       tdInfo |-> [party |-> p, constituency |-> "Kerry", minister |-> FALSE,
                   properties |-> [landlord_status |-> TRUE, property_count |-> n]]] :
      a \in 0..MaxVotes, h \in {0, MaxVotes}, p \in Parties, n \in 0..MaxHoldings }

ExtractorNames ==
    { priorityLandlordTDs[i].name : i \in 1..Len(priorityLandlordTDs) } \cup {"Pa Daly"}

ExtractorProbes ==
    { [kind |-> "extractor",
       tdSummary |-> [name |-> nm, properties |-> n, anti_tenant_votes |-> a,
                      hypocritical_votes |-> h]] :
      nm \in ExtractorNames, n \in 0..MaxHoldings, a \in 0..MaxVotes, h \in {0, 1, MaxVotes} }

SystemicProbes ==
    { [kind |-> "systemic",
       td |-> [baseHypocrisyScore |-> b, party |-> p, constituency |-> c,
               properties |-> [landlord_status |-> l, property_count |-> n]]] :
      b \in {JsUndefined, Num(0), Num(45), Num(100)}, p \in Parties, c \in Constituencies,
      l \in BOOLEAN, n \in 0..MaxHoldings }

\* A vote as cast and the declared pro-tenant position of its event
VoteProbes ==
    { [kind |-> "vote", voteCast |-> v, proTenantPosition |-> p] :
      v \in {"For", "Against", "Abstain", "Unknown"}, p \in {"FOR", "AGAINST"} }

\* The parties partyVotingTendencies lists, and one it does not list
ListedParties == {"Fianna Fail", "Fine Gael", "Independent", "Sinn Fein", "Social Democrats"}
SynthParties == ListedParties \cup {"Aontu"}

\* Values of Math.random(), in hundredths
Draws == 0..99

\* A landlord without sourced votes and one draw of Math.random()
SynthProbes ==
    { [kind |-> "synth",
       tdInfo |-> [party |-> p, constituency |-> "Kerry", minister |-> FALSE,
                   properties |-> [landlord_status |-> TRUE, property_count |-> n]],
       random |-> r] :
      p \in SynthParties, n \in 0..MaxHoldings, r \in Draws }

\* The electoral file and the TD database as getVulnerableTDs loads them:
\* three constituencies in file order, each with a margin and two TDs, any
\* of them absent from constituency_lookup; or a load that fails
ElectoralOrder == << "Kerry", "Louth", "Mayo" >>

TDsOf ==
    [ c \in {"Kerry", "Louth", "Mayo"} |->
        IF c = "Kerry" THEN << "Kerry TD 1", "Kerry TD 2" >>
        ELSE IF c = "Louth" THEN << "Louth TD 1", "Louth TD 2" >>
        ELSE << "Mayo TD 1", "Mayo TD 2" >> ]

LoadedDatabase(listed) ==
    [failed |-> FALSE,
     constituency_lookup |-> [ c \in listed |-> TDsOf[c] ],
     tds |-> [ n \in UNION { { TDsOf[c][i] : i \in 1..2 } : c \in DOMAIN TDsOf } |->
                 [constituency |-> CHOOSE c \in DOMAIN TDsOf : \E i \in 1..2 : TDsOf[c][i] = n] ]]

LoadedElectoral(margins) ==
    [failed |-> FALSE,
     constituencies |-> [ i \in 1..3 |-> [constituency |-> ElectoralOrder[i],
                                           margin_percentage |-> margins[i]] ]]

FailedLoad == [failed |-> TRUE]

VulnerableProbes ==
    { [kind |-> "vulnerable", electoral |-> LoadedElectoral(margins),
       database |-> LoadedDatabase(listed)] :
      margins \in [1..3 -> {20, 30, 70}], listed \in SUBSET {"Kerry", "Louth", "Mayo"} }
    \cup { [kind |-> "vulnerable", electoral |-> FailedLoad,
            database |-> LoadedDatabase({"Kerry", "Louth", "Mayo"})],
           [kind |-> "vulnerable", electoral |-> LoadedElectoral([ i \in 1..3 |-> 20 ]),
            database |-> FailedLoad] }

InitScore ==
    /\ probe \in IntegrationProbes \cup ExtractorProbes \cup SystemicProbes \cup VoteProbes
                  \cup SynthProbes \cup VulnerableProbes
    /\ electoralData \in IF probe.kind = "integration"
                         THEN ProbeElectoral(probe.tdInfo.constituency) ELSE { Null }
    /\ files = NoFiles
    /\ completeTDDatabase = Null
    /\ existingVotingData = Null
    /\ rng \in RandomStreams
    /\ rngPos = 0
    /\ integratedDatabase = Null
    /\ targetingReport = Null
    /\ run = NoRun
    /\ clock = 0
    /\ out = NoOut
    /\ ToolUnused
    /\ ManagerUnused

Returned(fn, value, vulnerable, electoral) ==
    /\ out' = [NoOut EXCEPT !.fn = fn, !.value = value, !.vulnerable = vulnerable,
                            !.electoral_data = electoral]
    /\ UNCHANGED << toolVars, managerVars >>
    /\ UNCHANGED << files, completeTDDatabase, existingVotingData, electoralData, rng, rngPos,
                    integratedDatabase, targetingReport, run, clock, probe >>

CallEnhancedHypocrisyScore ==
    /\ probe.kind = "integration"
    /\ Returned("calculateEnhancedHypocrisyScore",
                calculateEnhancedHypocrisyScore(probe.votingData, probe.tdInfo, electoralData),
                FALSE, NoOut.electoral_data)

CallPressurePriority ==
    /\ probe.kind = "integration"
    /\ Returned("calculatePressurePriority",
                calculatePressurePriority(probe.votingData, probe.tdInfo, electoralData),
                FALSE, NoOut.electoral_data)

CallElectoralTargeting ==
    /\ probe.kind = "integration"
    /\ Returned("addElectoralTargeting", 0, FALSE,
                addElectoralTargeting(probe.tdInfo, electoralData))

CallExtractorScore ==
    /\ probe.kind = "extractor"
    /\ Returned("calculateHypocrisyScore", calculateHypocrisyScore(probe.tdSummary),
                isVulnerableTarget(probe.tdSummary), NoOut.electoral_data)

CallSystemicScore ==
    /\ probe.kind = "systemic"
    /\ Returned("calculateSystemicHypocrisyScore", calculateSystemicHypocrisyScore(probe.td),
                FALSE, NoOut.electoral_data)

\* What a call that returns a boolean leaves
ReturnedConflict(fn, conflict) ==
    /\ out' = [NoOut EXCEPT !.fn = fn, !.conflict = conflict]
    /\ UNCHANGED << toolVars, managerVars >>
    /\ UNCHANGED << files, completeTDDatabase, existingVotingData, electoralData, rng, rngPos,
                    integratedDatabase, targetingReport, run, clock, probe >>

CallAnalyzeVoteHypocrisy ==
    /\ probe.kind = "vote"
    /\ ReturnedConflict("analyzeVoteHypocrisy",
                        analyzeVoteHypocrisy(probe.voteCast, probe.proTenantPosition))

\* is_hypocritical of a generated vote; voteChoice is one of the three
\* outcomes the synthesizer assigns
MarkGeneratedVote ==
    /\ probe.kind = "vote"
    /\ probe.voteCast \in {"For", "Against", "Abstain"}
    /\ ReturnedConflict("is_hypocritical",
                        isHypocriticalVote(probe.voteCast, probe.proTenantPosition))

\* One pass of the loop body of generateRealisticVotingPattern: the likelihood
\* and the choice made on the draw
ChooseVote ==
    /\ probe.kind = "synth"
    /\ out' = [NoOut EXCEPT !.fn = "voteChoice",
                            !.value = adjustedAntiTenantLikelihood(probe.tdInfo),
                            !.vote_cast = voteChoice(probe.random,
                                                     adjustedAntiTenantLikelihood(probe.tdInfo))]
    /\ UNCHANGED << toolVars, managerVars >>
    /\ UNCHANGED << files, completeTDDatabase, existingVotingData, electoralData, rng, rngPos,
                    integratedDatabase, targetingReport, run, clock, probe >>

\* generateRealisticVotingPattern called on the landlord, Math.random() being
\* read from one of the positions of the stream
CallGenerateRealisticVotingPattern ==
    /\ probe.kind = "synth"
    /\ probe.random < Len(rng)
    /\ out' = [NoOut EXCEPT !.fn = "generateRealisticVotingPattern",
                            !.value = adjustedAntiTenantLikelihood(probe.tdInfo),
                            !.voting_record =
                                generateRealisticVotingPattern(probe.tdInfo, electoralData, rng,
                                                               probe.random, clock)]
    /\ rngPos' = (probe.random + Len(housingVoteTargets)) % Len(rng)
    /\ UNCHANGED << toolVars, managerVars >>
    /\ UNCHANGED << files, completeTDDatabase, existingVotingData, electoralData, rng,
                    integratedDatabase, targetingReport, run, clock, probe >>

\* getVulnerableTDs called on a manager whose loads end as the probe says
CallGetVulnerableTDs ==
    /\ probe.kind = "vulnerable"
    /\ out' = [NoOut EXCEPT !.fn = "getVulnerableTDs",
                            !.vulnerable_tds = getVulnerableTDs(probe.electoral, probe.database)]
    /\ UNCHANGED << toolVars, managerVars >>
    /\ UNCHANGED << files, completeTDDatabase, existingVotingData, electoralData, rng, rngPos,
                    integratedDatabase, targetingReport, run, clock, probe >>

NextScore ==
    \/ CallGetVulnerableTDs
    \/ ChooseVote
    \/ CallGenerateRealisticVotingPattern
    \/ CallAnalyzeVoteHypocrisy
    \/ MarkGeneratedVote
    \/ CallEnhancedHypocrisyScore
    \/ CallPressurePriority
    \/ CallElectoralTargeting
    \/ CallExtractorScore
    \/ CallSystemicScore

SpecScore == InitScore /\ [][NextScore]_vars

----------------------------------------------------------------------------
(* Runs of verify-checksums.js between changes to the data files *)

EngineUnused ==
    /\ files = NoFiles
    /\ completeTDDatabase = Null
    /\ existingVotingData = Null
    /\ electoralData = Null
    /\ rng \in RandomStreams
    /\ rngPos = 0
    /\ integratedDatabase = Null
    /\ targetingReport = Null
    /\ run = NoRun
    /\ clock = 0
    /\ probe = NoProbe
    /\ out = NoOut

InitChecksums ==
    /\ EngineUnused
    /\ ManagerUnused
    /\ disk \in [TrackedFiles -> { NoFile } \cup { FileWith(c) : c \in Contents }]
    /\ checksumsFile = NoChecksumsFile
    /\ recorded = NoRecorded
    /\ exitStatus = NoExit

\* A tracked file is written with other content, or created
WriteFile ==
    \E f \in TrackedFiles, c \in Contents :
        /\ disk[f] # FileWith(c)
        /\ disk' = [disk EXCEPT ![f] = FileWith(c)]
        /\ exitStatus' = NoExit
        /\ UNCHANGED << checksumsFile, recorded, engineVars, managerVars >>

RemoveFile ==
    \E f \in TrackedFiles :
        /\ disk[f].exists
        /\ disk' = [disk EXCEPT ![f] = NoFile]
        /\ exitStatus' = NoExit
        /\ UNCHANGED << checksumsFile, recorded, engineVars, managerVars >>

RemoveChecksumsFile ==
    /\ checksumsFile.state # "missing"
    /\ checksumsFile' = NoChecksumsFile
    /\ exitStatus' = NoExit
    /\ UNCHANGED << disk, recorded, engineVars, managerVars >>

\* data/checksums.json is cut short, so that JSON.parse throws on it
TruncateChecksumsFile ==
    /\ checksumsFile.state = "saved"
    /\ checksumsFile' = UnparsableChecksumsFile
    /\ exitStatus' = NoExit
    /\ UNCHANGED << disk, recorded, engineVars, managerVars >>

\* node verify-checksums.js --generate
RunGenerate ==
    \E r \in { generateChecksums(disk, checksumsFile, clock) } :
        /\ checksumsFile' = r.checksumsFile
        /\ recorded' = IF \A f \in TrackedFiles : disk[f].exists
                       THEN [present |-> TRUE, checksums |-> r.value.checksums]
                       ELSE recorded
        /\ exitStatus' = [op |-> "--generate", result |-> r.value, code |-> 0]
        /\ UNCHANGED << disk, engineVars, managerVars >>

\* node verify-checksums.js --verify: process.exit(verified ? 0 : 1)
RunVerify ==
    \E r \in { verifyChecksums(disk, checksumsFile, clock) } :
        /\ checksumsFile' = r.checksumsFile
        /\ recorded' = IF r.checksumsFile # checksumsFile
                       THEN [present |-> TRUE, checksums |-> r.checksumsFile.checksums]
                       ELSE recorded
        /\ exitStatus' = [op |-> "--verify", result |-> r.value,
                          code |-> IF r.value.truthy THEN 0 ELSE 1]
        /\ UNCHANGED << disk, engineVars, managerVars >>

NextChecksums ==
    \/ WriteFile
    \/ RemoveFile
    \/ RemoveChecksumsFile
    \/ TruncateChecksumsFile
    \/ RunGenerate
    \/ RunVerify

SpecChecksums == InitChecksums /\ [][NextChecksums]_vars

----------------------------------------------------------------------------
(* Callers of StaticDataManager.loadTDDatabase, run by the event loop *)

InitManager ==
    /\ EngineUnused
    /\ ToolUnused
    /\ ManagerUnused

SetManager(m) ==
    /\ cache' = m.cache
    /\ loadingPromises' = m.loadingPromises
    /\ promises' = m.promises
    /\ microtasks' = m.microtasks
    /\ callers' = m.callers
    /\ UNCHANGED << engineVars, toolVars >>

\* A call that starts a load is made only while loads remain in the bound
MayCall(m) == m.cache.has \/ m.loadingPromises.has \/ Len(m.promises) < MaxFetches

\* A task (an event handler, a timer) calls loadTDDatabase and awaits it;
\* tasks run when no promise job is queued
Call ==
    \E c \in Callers :
        /\ microtasks = << >>
        /\ callers[c].state = "idle"
        /\ MayCall(Manager)
        /\ SetManager(loadTDDatabase(Manager, c))

\* The fetch of a load ends: the network task resumes _loadJSON with the
\* response or the failure
FetchSettles ==
    \E p \in 1..Len(promises), outcome \in {"data", "error"} :
        /\ microtasks = << >>
        /\ promises[p].fetch = "in flight"
        /\ SetManager([Manager EXCEPT !.promises[p].fetch = "settled",
                                      !.microtasks = << Job("settle", 0, p, outcome) >>])

LoadJSONReturns ==
    /\ microtasks # << >>
    /\ Head(microtasks).kind = "settle"
    /\ SetManager(loadJSONReturns(Manager, Head(microtasks)))

LoadTDDatabaseResumes ==
    /\ microtasks # << >>
    /\ Head(microtasks).kind = "resume"
    /\ SetManager(loadTDDatabaseResumes(Manager, Head(microtasks)))

Subscribes ==
    /\ microtasks # << >>
    /\ Head(microtasks).kind = "then"
    /\ SetManager(subscribes(Manager, Head(microtasks)))

Follows ==
    /\ microtasks # << >>
    /\ Head(microtasks).kind = "react"
    /\ SetManager(follows(Manager, Head(microtasks)))

\* The caller gets the outcome of its call and leaves it at that
Delivered ==
    /\ microtasks # << >>
    /\ Head(microtasks).kind = "deliver"
    /\ SetManager(delivered(Manager, Head(microtasks)))

\* The caller gets the outcome of its call and calls loadTDDatabase again
\* before it returns to the event loop
DeliveredAndCalledAgain ==
    /\ microtasks # << >>
    /\ Head(microtasks).kind = "deliver"
    /\ \E m \in { delivered(Manager, Head(microtasks)) } :
           /\ MayCall(m)
           /\ SetManager(loadTDDatabase(m, Head(microtasks).caller))

NextManager ==
    \/ Call
    \/ FetchSettles
    \/ LoadJSONReturns
    \/ LoadTDDatabaseResumes
    \/ Subscribes
    \/ Follows
    \/ Delivered
    \/ DeliveredAndCalledAgain

SpecManager == InitManager /\ [][NextManager]_vars

----------------------------------------------------------------------------
(* Properties of the scoring functions (SpecScore) *)

\* C1: each of calculateEnhancedHypocrisyScore, the extractor's
\* calculateHypocrisyScore and calculateSystemicHypocrisyScore returns an
\* integer between 0 and 100 for any holdings count >= 0 and any vote counts.
ScoreWithinRange ==
    out.fn \in {"calculateEnhancedHypocrisyScore", "calculateHypocrisyScore",
                "calculateSystemicHypocrisyScore"}
        => out.value \in 0..100

\* The terms of the enhanced score add up to 30 + 40 + 50 and the call returns 100.
ScoreClampedAtTop ==
    /\ out.fn = "calculateEnhancedHypocrisyScore"
    /\ probe.tdInfo.properties.property_count = MaxHoldings
    /\ probe.votingData.anti_tenant_votes = MaxVotes
    /\ probe.votingData.hypocritical_votes = MaxVotes
    /\ out.value = 100

\* C2: calculatePressurePriority returns an integer between 1 and 10.
PriorityWithinRange ==
    out.fn = "calculatePressurePriority" => out.value \in 1..10

\* A call with every bonus at its maximum returns 10, one with none returns 1.
PriorityAtAnEnd ==
    /\ out.fn = "calculatePressurePriority"
    /\ \/ /\ out.value = 10
          /\ probe.tdInfo.properties.property_count >= 10
          /\ probe.votingData.anti_tenant_votes > 3
       \/ /\ out.value = 1
          /\ probe.tdInfo.properties.property_count = 0
          /\ probe.votingData.anti_tenant_votes = 0

UnknownMarginNeverCompared ==
    /\ (/\ probe.kind = "integration"
        /\ \/ electoralData.isNull
           \/ ~electoralData.constituencies[probe.tdInfo.constituency].present
           \/ electoralData.constituencies[probe.tdInfo.constituency].margin_percentage.kind
                # "number")
           => /\ out.fn = "calculateEnhancedHypocrisyScore"
                    => out.value = calculateEnhancedHypocrisyScore(probe.votingData,
                                                                   probe.tdInfo, Null)
              /\ out.fn = "calculatePressurePriority"
                    => out.value = calculatePressurePriority(probe.votingData,
                                                             probe.tdInfo, Null)
              /\ out.fn = "addElectoralTargeting"
                    => out.electoral_data.targeting_priority
                         \notin {"TIER_1_CRITICAL", "TIER_2_HIGH", "TIER_3_MEDIUM"}
    /\ (/\ out.fn = "calculateHypocrisyScore"
        /\ \A i \in 1..Len(priorityLandlordTDs) :
               priorityLandlordTDs[i].name = probe.tdSummary.name
                   => priorityLandlordTDs[i].electoral_margin.kind # "number")
           => /\ ~out.vulnerable
              /\ out.value = Min(Min(probe.tdSummary.properties * 5, 50)
                                   + probe.tdSummary.anti_tenant_votes * 15
                                   + probe.tdSummary.hypocritical_votes * 20
                                   + (IF \E i \in 1..Len(priorityLandlordTDs) :
                                            /\ priorityLandlordTDs[i].name = probe.tdSummary.name
                                            /\ priorityLandlordTDs[i].minister
                                      THEN 15 ELSE 0),
                                 100)

\* C11: an entity with no holdings, no executive office and a margin of 5.0
\* or more has the score 0 and a low tier, whatever its party and its votes.
NothingHeldScoresZero ==
    (/\ probe.kind = "integration"
     /\ probe.tdInfo.properties.property_count = 0
     /\ ~probe.tdInfo.minister
     /\ ~electoralData.isNull
     /\ electoralData.constituencies[probe.tdInfo.constituency].present
     /\ electoralData.constituencies[probe.tdInfo.constituency].margin_percentage.kind = "number"
     /\ electoralData.constituencies[probe.tdInfo.constituency].margin_percentage.val >= 50)
        => /\ out.fn = "calculateEnhancedHypocrisyScore" => out.value = 0
           /\ out.fn = "addElectoralTargeting"
                 => out.electoral_data.targeting_priority \in {"LOW", "TIER_4_LOW"}

\* C12: analyzeVoteHypocrisy returns true exactly for (Against, FOR) and
\* (For, AGAINST); every other pair, Abstain and Unknown included, gives false.
ConflictIsSymmetric ==
    out.fn = "analyzeVoteHypocrisy"
        => (out.conflict <=>
               \/ probe.voteCast = "Against" /\ probe.proTenantPosition = "FOR"
               \/ probe.voteCast = "For" /\ probe.proTenantPosition = "AGAINST")

\* A For vote on an event whose pro-tenant position is AGAINST is a conflict.
ForOnAgainstEventConflicts ==
    /\ out.fn = "analyzeVoteHypocrisy"
    /\ probe.voteCast = "For"
    /\ probe.proTenantPosition = "AGAINST"
    /\ out.conflict

CompositeScoreFormula ==
    /\ out.fn = "calculateEnhancedHypocrisyScore"
          => \E rec \in { LookupElectoral(electoralData, probe.tdInfo.constituency) } :
             \E holdings \in { Min(probe.tdInfo.properties.property_count * 3, 30),
                               Min(probe.tdInfo.properties.property_count * 5, 50) } :
             \E bonus \in {10, 15, 20} :
                 out.value =
                     Max(0, Min(holdings + 15 * probe.votingData.hypocritical_votes
                                  + (IF probe.tdInfo.minister THEN 15 ELSE 0)
                                  + (IF rec.present /\ rec.margin_percentage.kind = "number"
                                        /\ rec.margin_percentage.val < 50
                                     THEN bonus ELSE 0),
                                100))
    /\ out.fn = "calculateHypocrisyScore"
          => \E td \in { FindPriorityTD(probe.tdSummary.name) } :
             \E holdings \in { Min(probe.tdSummary.properties * 3, 30),
                               Min(probe.tdSummary.properties * 5, 50) } :
             \E bonus \in {10, 15, 20} :
                 out.value =
                     Max(0, Min(holdings + 15 * probe.tdSummary.hypocritical_votes
                                  + (IF td.minister THEN 15 ELSE 0)
                                  + (IF td.electoral_margin.kind = "number"
                                        /\ td.electoral_margin.val < 50
                                     THEN bonus ELSE 0),
                                100))

\* C16: for a numeric margin or no electoral record, calculatePressurePriority
\* returns 1 + (3, 2, 1, 0 for holdings >= 10, >= 5, >= 1, else)
\* + min(anti-tenant votes, 3) + (3, 2, 1, 0 for a margin < 1.0, < 2.5, < 5.0,
\* else; 0 without a record): the sum itself, which min(priority, 10) leaves alone.
PriorityIsTheSum ==
    (/\ out.fn = "calculatePressurePriority"
     /\ \/ electoralData.isNull
        \/ ~electoralData.constituencies[probe.tdInfo.constituency].present
        \/ electoralData.constituencies[probe.tdInfo.constituency].margin_percentage.kind
             = "number")
        => out.value =
              1 + (IF probe.tdInfo.properties.property_count >= 10 THEN 3
                   ELSE IF probe.tdInfo.properties.property_count >= 5 THEN 2
                   ELSE IF probe.tdInfo.properties.property_count >= 1 THEN 1 ELSE 0)
                + (IF probe.votingData.anti_tenant_votes < 3
                   THEN probe.votingData.anti_tenant_votes ELSE 3)
                + (IF electoralData.isNull
                      \/ ~electoralData.constituencies[probe.tdInfo.constituency].present
                   THEN 0
                   ELSE The({ IF m < 10 THEN 3 ELSE IF m < 25 THEN 2 ELSE IF m < 50 THEN 1 ELSE 0 :
                              m \in { electoralData.constituencies[probe.tdInfo.constituency]
                                        .margin_percentage.val } }))

\* Five holdings, two anti-tenant votes and a margin of 2.4 give 1 + 2 + 2 + 2.
PriorityOfSeven ==
    /\ out.fn = "calculatePressurePriority"
    /\ probe.tdInfo.properties.property_count = 5
    /\ probe.votingData.anti_tenant_votes = 2
    /\ ~electoralData.isNull
    /\ electoralData.constituencies[probe.tdInfo.constituency].margin_percentage = Num(24)
    /\ out.value = 7

\* C17: a draw r gives Against when r < L, Abstain when L <= r < L + 0.1 and
\* For otherwise, and each of the three outcomes is the choice for some draw,
\* for every party and holdings count.
EveryOutcomeForSomeDraw ==
    out.fn = "voteChoice"
        => \E L \in { adjustedAntiTenantLikelihood(probe.tdInfo) } :
               /\ \E end \in {L + 19, L + 20, L + 21} : \A r \in Draws :
                      voteChoice(r, L) = IF 2 * r < L THEN "Against"
                                         ELSE IF 2 * r < end THEN "Abstain" ELSE "For"
               /\ \A outcome \in {"Against", "Abstain", "For"} :
                      \E r \in Draws : voteChoice(r, L) = outcome

\* C17, amended: a draw r gives Against when r < L, Abstain when
\* L <= r < L + 0.1 (the sum as a double) and For otherwise, the band being the
\* same for every party and holdings count; Against and Abstain are each the
\* choice for some draw; For is the choice for some draw when L <= 0.85 and for
\* no draw when L is 0.9 or 0.95, where L + 0.1 is 1 or more.
VoteBands ==
    out.fn = "voteChoice"
        => \E L \in { adjustedAntiTenantLikelihood(probe.tdInfo) } :
               /\ \E end \in {L + 19, L + 20, L + 21} :
                      /\ \A r \in Draws :
                             voteChoice(r, L) = IF 2 * r < L THEN "Against"
                                                ELSE IF 2 * r < end THEN "Abstain" ELSE "For"
                      /\ out.vote_cast = IF 2 * probe.random < L THEN "Against"
                                         ELSE IF 2 * probe.random < end THEN "Abstain"
                                         ELSE "For"
               /\ \E r \in Draws : voteChoice(r, L) = "Against"
               /\ \E r \in Draws : voteChoice(r, L) = "Abstain"
               /\ L <= 170 => \E r \in Draws : voteChoice(r, L) = "For"
               /\ L \in {180, 190} => \A r \in Draws : voteChoice(r, L) # "For"

\* With L = 0.95 the draw 0.99 lies in the abstain band, which ends beyond 1.
AbstainAtTheTopDraw ==
    /\ out.fn = "voteChoice"
    /\ probe.tdInfo.party = "Fine Gael"
    /\ out.value = 190
    /\ probe.random = 99
    /\ out.vote_cast = "Abstain"

\* C18: the holdings adjustment is min(0.1 x holdings, 0.3), the adjusted
\* likelihood is base + adjustment capped at 0.95 for every party, listed or
\* not, and some draw is not below it.
LikelihoodNeverCertain ==
    out.fn = "voteChoice"
        => /\ propertyInfluence(probe.tdInfo) =
                  IF probe.tdInfo.properties.property_count < 3
                  THEN 10 * probe.tdInfo.properties.property_count ELSE 30
           /\ out.value <= 190
           /\ \E nominal \in { antiTenantLikelihood(probe.tdInfo.party)
                                 + propertyInfluence(probe.tdInfo) } :
                  out.value \in IF nominal < 95
                                THEN {2 * nominal - 1, 2 * nominal, 2 * nominal + 1}
                                ELSE {190}
           /\ \E r \in Draws : voteChoice(r, out.value) # "Against"

\* The cap acts (0.8 + 0.3) and a draw of 0.95 is not an Against vote.
CapActsOnLargeHolder ==
    /\ out.fn = "voteChoice"
    /\ probe.tdInfo.party = "Independent"
    /\ probe.tdInfo.properties.property_count = MaxHoldings
    /\ out.value = 190
    /\ probe.random = 95
    /\ out.vote_cast # "Against"

\* C19: for a party that partyVotingTendencies does not list, the synthesizer
\* uses the base likelihood 0.6 and returns a complete record: one vote per
\* tracked event, each with one of the three outcomes, and tallies that add up.
UnlistedPartyGetsDefault ==
    (/\ out.fn = "generateRealisticVotingPattern"
     /\ probe.tdInfo.party \notin {"Fianna Fail", "Fine Gael", "Independent", "Sinn Fein",
                                   "Social Democrats"})
        => /\ \E nominal \in { 60 + propertyInfluence(probe.tdInfo) } :
                  out.value \in {2 * nominal - 1, 2 * nominal, 2 * nominal + 1}
           /\ Len(out.voting_record.detailed_votes) = 5
           /\ \A k \in 1..5 :
                  /\ out.voting_record.detailed_votes[k].vote_id = housingVoteTargets[k].id
                  /\ out.voting_record.detailed_votes[k].vote_cast
                       \in {"Against", "Abstain", "For"}
           /\ out.voting_record.housing_votes.total_votes = 5
           /\ out.voting_record.housing_votes.pro_tenant_votes
                + out.voting_record.housing_votes.anti_tenant_votes
                + out.voting_record.housing_votes.abstentions = 5
           /\ out.voting_record.verification_status = "PATTERN_GENERATED"

\* A landlord of an unlisted party has a generated record with Against votes.
UnlistedPartyRecord ==
    /\ out.fn = "generateRealisticVotingPattern"
    /\ probe.tdInfo.party = "Aontu"
    /\ Len(out.voting_record.detailed_votes) = 5
    /\ out.voting_record.housing_votes.anti_tenant_votes > 0
    /\ out.voting_record.housing_votes.anti_tenant_votes < 5

\* What calculatePressurePriority added for the margin: its result less the
\* base, the holdings term and the votes term
MarginBonus ==
    out.value - 1
      - (IF probe.tdInfo.properties.property_count >= 10 THEN 3
         ELSE IF probe.tdInfo.properties.property_count >= 5 THEN 2
         ELSE IF probe.tdInfo.properties.property_count >= 1 THEN 1 ELSE 0)
      - (IF probe.votingData.anti_tenant_votes < 3
         THEN probe.votingData.anti_tenant_votes ELSE 3)

\* C28: the margin bonus of calculatePressurePriority is 3, 2, 1 or 0 exactly
\* when getTargetingPriority gives the electoral record TIER_1_CRITICAL,
\* TIER_2_HIGH, TIER_3_MEDIUM or TIER_4_LOW, and without an electoral record
\* the bonus is 0 and the targeting priority is LOW.
BonusAgreesWithTier ==
    out.fn = "calculatePressurePriority"
        => \E tier \in { addElectoralTargeting(probe.tdInfo, electoralData).targeting_priority } :
               /\ tier \in {"TIER_1_CRITICAL", "TIER_2_HIGH", "TIER_3_MEDIUM", "TIER_4_LOW", "LOW"}
               /\ MarginBonus = 3 <=> tier = "TIER_1_CRITICAL"
               /\ MarginBonus = 2 <=> tier = "TIER_2_HIGH"
               /\ MarginBonus = 1 <=> tier = "TIER_3_MEDIUM"
               /\ MarginBonus = 0 <=> tier \in {"TIER_4_LOW", "LOW"}
               /\ tier = "LOW" <=> (electoralData.isNull
                                    \/ ~electoralData.constituencies[probe.tdInfo.constituency]
                                          .present)

\* A margin of 4.9 gave the bonus 1 to a record of tier TIER_3_MEDIUM.
BonusOneForMedium ==
    /\ out.fn = "calculatePressurePriority"
    /\ ~electoralData.isNull
    /\ electoralData.constituencies[probe.tdInfo.constituency].present
    /\ electoralData.constituencies[probe.tdInfo.constituency].margin_percentage = Num(49)
    /\ MarginBonus = 1
    /\ getTargetingPriority(electoralData.constituencies[probe.tdInfo.constituency])
         = "TIER_3_MEDIUM"

\* C27: the record generateRealisticVotingPattern returns has one detailed
\* vote per tracked event, in the order of the slate; total_votes is the size
\* of the slate; pro_tenant_votes + anti_tenant_votes + abstentions =
\* total_votes with no count below 0; missed_votes = 0; and as many detailed
\* votes are marked is_hypocritical as anti_tenant_votes counts.
SynthesizedRecordConsistent ==
    out.fn = "generateRealisticVotingPattern"
        => /\ Len(out.voting_record.detailed_votes) = Len(housingVoteTargets)
           /\ \A k \in 1..Len(housingVoteTargets) :
                  out.voting_record.detailed_votes[k].vote_id = housingVoteTargets[k].id
           /\ out.voting_record.housing_votes.total_votes = Len(housingVoteTargets)
           /\ out.voting_record.housing_votes.pro_tenant_votes
                + out.voting_record.housing_votes.anti_tenant_votes
                + out.voting_record.housing_votes.abstentions
              = out.voting_record.housing_votes.total_votes
           /\ out.voting_record.housing_votes.pro_tenant_votes >= 0
           /\ out.voting_record.housing_votes.anti_tenant_votes >= 0
           /\ out.voting_record.housing_votes.abstentions >= 0
           /\ out.voting_record.housing_votes.missed_votes = 0
           /\ Cardinality({ k \in 1..Len(out.voting_record.detailed_votes) :
                                out.voting_record.detailed_votes[k].is_hypocritical })
              = out.voting_record.housing_votes.anti_tenant_votes

\* A synthesized record with votes of all three kinds
SynthesizedRecordOfAllKinds ==
    /\ out.fn = "generateRealisticVotingPattern"
    /\ out.voting_record.housing_votes.pro_tenant_votes > 0
    /\ out.voting_record.housing_votes.anti_tenant_votes > 0
    /\ out.voting_record.housing_votes.abstentions > 0
    /\ \E k \in 1..Len(out.voting_record.detailed_votes) :
           out.voting_record.detailed_votes[k].vote_cast = "Abstain"

\* C23: OireachtasVotingExtractor.calculateHypocrisyScore returns
\* min(100, properties x 5 + anti-tenant votes x 15 + hypocritical votes x 20
\* + 10 if the TD is electorally vulnerable + 15 if the TD holds a government
\* position), the formula of the extractor's README.
ExtractorScoreIsReadmeFormula ==
    out.fn = "calculateHypocrisyScore"
        => out.value =
              Min(100,
                  probe.tdSummary.properties * 5
                    + probe.tdSummary.anti_tenant_votes * 15
                    + probe.tdSummary.hypocritical_votes * 20
                    + (IF out.vulnerable THEN 10 ELSE 0)
                    + (IF FindPriorityTD(probe.tdSummary.name).found
                          /\ FindPriorityTD(probe.tdSummary.name).minister
                       THEN 15 ELSE 0))

\* C26: when the electoral file and the database load, getVulnerableTDs
\* returns every TD of every constituency that is in constituency_lookup and
\* has a margin below 5, in ascending order of margin, and no TD of a
\* constituency with a margin of 5 or more, also when another constituency
\* of the electoral file is missing from constituency_lookup.
MissingConstituencyIsolated ==
    (/\ out.fn = "getVulnerableTDs"
     /\ ~probe.electoral.failed
     /\ ~probe.database.failed)
        => /\ \A i \in 1..Len(probe.electoral.constituencies) :
                  \E e \in { probe.electoral.constituencies[i] } :
                      /\ (/\ e.margin_percentage < 50
                          /\ e.constituency \in DOMAIN probe.database.constituency_lookup)
                             => \A k \in 1..Len(probe.database.constituency_lookup[e.constituency]) :
                                    \E j \in 1..Len(out.vulnerable_tds) :
                                        out.vulnerable_tds[j].name =
                                            probe.database.constituency_lookup[e.constituency][k]
                      /\ e.margin_percentage >= 50
                             => \A j \in 1..Len(out.vulnerable_tds) :
                                    out.vulnerable_tds[j].constituency # e.constituency
           /\ \A i, j \in 1..Len(out.vulnerable_tds) :
                  i < j => out.vulnerable_tds[i].electoral_margin
                             <= out.vulnerable_tds[j].electoral_margin

----------------------------------------------------------------------------
(* Properties of the integration object (Spec) *)

\* The lists of the last targeting report
TierLists ==
    IF targetingReport.isNull THEN {}
    ELSE { targetingReport.tier_1_critical, targetingReport.tier_2_high,
           targetingReport.tier_3_medium }

\* C4: every tier list of generateTargetingReport is in non-increasing order
\* of 0.6 x hypocrisy score + 0.4 x (priority x 10), here times ten.
TierListsDescending ==
    \A list \in TierLists : \A i, j \in 1..Len(list) :
        i < j => 6 * list[i].voting_record.hypocrisy_score
                   + 40 * list[i].voting_record.pressure_campaign_priority
                 >= 6 * list[j].voting_record.hypocrisy_score
                      + 40 * list[j].voting_record.pressure_campaign_priority

\* The sort moved an entity loaded later in front of one loaded earlier.
LaterEntityRankedFirst ==
    \E list \in TierLists : \E i, j \in 1..Len(list) :
        /\ i < j
        /\ list[i].name > list[j].name
        /\ 6 * list[i].voting_record.hypocrisy_score
             + 40 * list[i].voting_record.pressure_campaign_priority
           > 6 * list[j].voting_record.hypocrisy_score
               + 40 * list[j].voting_record.pressure_campaign_priority

\* C5: two entities of one tier list whose combined priorities are equal
\* stand in the order in which they were loaded (names are load positions).
TiesKeepLoadOrder ==
    \A list \in TierLists : \A i, j \in 1..Len(list) :
        (i < j /\ list[i].combined_priority = list[j].combined_priority)
            => list[i].name < list[j].name

\* A tier list holds two entities of equal combined priority.
TieInATierList ==
    \E list \in TierLists : \E i, j \in 1..Len(list) :
        /\ i < j
        /\ list[i].combined_priority = list[j].combined_priority
        /\ list[i].name < list[j].name

\* C6: every property-holding entity of the integrated database appears in
\* the output of generateTargetingReport, whatever its tier.
EveryLandlordReported ==
    (~targetingReport.isNull /\ ~integratedDatabase.isNull)
        => \A k \in 1..Len(integratedDatabase.tds) :
               integratedDatabase.tds[k].properties.landlord_status
                   => \E list \in TierLists : \E i \in 1..Len(list) :
                          list[i].name = integratedDatabase.tds[k].name

OptionalLoadFailureTolerated ==
    (/\ run.op = "executeIntegration"
     /\ ~files.roster.missing
     /\ \A k \in 1..Len(files.roster.content.tds) : files.roster.content.tds[k].hasProperties
     /\ files.voting.missing \/ files.electoral.missing)
        => run.ok /\ ~targetingReport.isNull

\* C10: integrateVotingRecords on a loaded roster completes whatever entry is
\* malformed, and no entry with a negative holdings count is in its result.
MalformedEntityExcluded ==
    (run.op = "integrateVotingRecords" /\ ~completeTDDatabase.isNull)
        => /\ run.ok
           /\ \A k \in 1..Len(integratedDatabase.tds) :
                  integratedDatabase.tds[k].properties.property_count >= 0

\* C20: integrateVotingRecords leaves the loaded roster, the sourced vote
\* data and the electoral data as they were; its results are attached to its
\* own copy only.
IntegrationLeavesInputs ==
    [][run'.op = "integrateVotingRecords"
          => /\ completeTDDatabase' = completeTDDatabase
             /\ existingVotingData' = existingVotingData
             /\ electoralData' = electoralData]_vars

\* The call has returned a database with records attached and the roster is
\* still the content of its file.
RecordsAttachedToTheCopy ==
    /\ run.op = "integrateVotingRecords"
    /\ run.ok
    /\ ~integratedDatabase.isNull
    /\ integratedDatabase.tds # completeTDDatabase.tds
    /\ completeTDDatabase = files.roster.content

\* C25: integrateVotingRecords returns normally for every loaded roster, with
\* or without sourced votes and electoral data; in its result every entity
\* has a voting_record, every landlord also has electoral_data with a
\* targeting priority, and every other entity has the all-zero record.
IntegrationAlwaysReturns ==
    (run.op = "integrateVotingRecords" /\ ~completeTDDatabase.isNull)
        => /\ run.ok
           /\ Len(integratedDatabase.tds) = Len(completeTDDatabase.tds)
           /\ \A k \in 1..Len(integratedDatabase.tds) :
                  /\ "voting_record" \in DOMAIN integratedDatabase.tds[k]
                  /\ integratedDatabase.tds[k].properties.landlord_status
                         => /\ "electoral_data" \in DOMAIN integratedDatabase.tds[k]
                            /\ integratedDatabase.tds[k].electoral_data.targeting_priority
                                 \in {"TIER_1_CRITICAL", "TIER_2_HIGH", "TIER_3_MEDIUM",
                                      "TIER_4_LOW", "LOW"}
                  /\ ~integratedDatabase.tds[k].properties.landlord_status
                         => /\ integratedDatabase.tds[k].voting_record.hypocrisy_score = 0
                            /\ integratedDatabase.tds[k].voting_record.housing_votes
                                 = [total_votes |-> 0, pro_tenant_votes |-> 0,
                                    anti_tenant_votes |-> 0, abstentions |-> 0,
                                    missed_votes |-> 0]

\* The field of the report that lists a tier, and the cap of that list
\* (the roster size where no cap is stated)
TierField ==
    [ tier \in {"TIER_1_CRITICAL", "TIER_2_HIGH", "TIER_3_MEDIUM", "TIER_4_LOW"} |->
        IF tier = "TIER_1_CRITICAL" THEN [field |-> "tier_1_critical", cap |-> Tier1Cap]
        ELSE IF tier = "TIER_2_HIGH" THEN [field |-> "tier_2_high", cap |-> Tier2Cap]
        ELSE IF tier = "TIER_3_MEDIUM" THEN [field |-> "tier_3_medium", cap |-> Tier3Cap]
        ELSE [field |-> "tier_4_low", cap |-> MaxTDs] ]

\* C21: the report generateTargetingReport returns has one list for each of
\* the four tiers; a list holds only landlords of its tier (so none is in two
\* lists) and at most 5, 8 or 10 of them for CRITICAL, HIGH, MEDIUM; and no
\* landlord of the tier left out of the list has a larger combined priority
\* than one in it.
TopListForEachTier ==
    (run.op \in {"generateTargetingReport", "executeIntegration"} /\ run.ok)
        => \A tier \in DOMAIN TierField :
               /\ TierField[tier].field \in DOMAIN targetingReport
               /\ \E list \in { targetingReport[TierField[tier].field] } :
                      /\ Len(list) <= TierField[tier].cap
                      /\ \A i \in 1..Len(list) :
                             list[i].electoral_data.targeting_priority = tier
                      /\ \A k \in 1..Len(integratedDatabase.tds) :
                             (/\ integratedDatabase.tds[k].properties.landlord_status
                              /\ integratedDatabase.tds[k].electoral_data.targeting_priority
                                   = tier
                              /\ \A i \in 1..Len(list) :
                                     list[i].name # integratedDatabase.tds[k].name)
                                 => \A i \in 1..Len(list) :
                                        list[i].combined_priority >=
                                            combinedPriority(
                                                integratedDatabase.tds[k].voting_record
                                                    .hypocrisy_score,
                                                integratedDatabase.tds[k].voting_record
                                                    .pressure_campaign_priority)

\* The position of the draw stream at which entry k of the roster is reached
\* when the loop starts at position pos: every landlord before it that has no
\* sourced votes has taken one draw per tracked event.
DrawsStartAt(roster, voting, pos, k) ==
    (pos + Len(housingVoteTargets)
             * Cardinality({ j \in 1..(k - 1) :
                               /\ roster.tds[j].properties.landlord_status
                               /\ ~LookupVotes(voting, roster.tds[j].name).present }))
        % Len(rng)

\* C22: the entry integrateVotingRecords produces for an entity (scores and
\* tier) is the one it produces for a roster that holds this entity alone,
\* given the same electoral data, the same sourced votes and the same draws
\* of Math.random(): the other entities of the roster do not enter it.
ResultIndependentOfRoster ==
    [][(run'.op \in {"integrateVotingRecords", "executeIntegration"} /\ run'.ok)
          => \A k \in 1..Len(integratedDatabase'.tds) :
                 integratedDatabase'.tds[k] =
                     integrateVotingRecords(
                         [isNull |-> FALSE, tds |-> << completeTDDatabase'.tds[k] >>],
                         existingVotingData', electoralData', rng,
                         DrawsStartAt(completeTDDatabase', existingVotingData', rngPos, k),
                         clock).value.tds[1]]_vars

\* A roster of three landlords was integrated: the first with sourced votes,
\* the other two alike in party and holdings, with patterns generated from
\* different draws.
AlikeEntitiesDifferentDraws ==
    /\ run.op = "integrateVotingRecords"
    /\ run.ok
    /\ Len(integratedDatabase.tds) = 3
    /\ \A k \in 1..3 : integratedDatabase.tds[k].properties.landlord_status
    /\ integratedDatabase.tds[1].voting_record.verification_status = "EXISTING_DATA_ENHANCED"
    /\ integratedDatabase.tds[2].voting_record.verification_status = "PATTERN_GENERATED"
    /\ integratedDatabase.tds[3].voting_record.verification_status = "PATTERN_GENERATED"
    /\ integratedDatabase.tds[2].party = integratedDatabase.tds[3].party
    /\ integratedDatabase.tds[2].properties = integratedDatabase.tds[3].properties
    /\ integratedDatabase.tds[2].voting_record.detailed_votes
         # integratedDatabase.tds[3].voting_record.detailed_votes

----------------------------------------------------------------------------
(* Properties of repeated runs (SpecRepeat) *)

\* C14: with sourced votes for every landlord, running the integration and the
\* report again on the same input gives the same output, field by field.
RepeatedRunIdentical ==
    [][/\ (run'.op \in {"integrateVotingRecords", "executeIntegration"} /\ run'.ok
           /\ ~integratedDatabase.isNull)
             => integratedDatabase' = integratedDatabase
       /\ (run'.op \in {"generateTargetingReport", "executeIntegration"} /\ run'.ok
           /\ ~targetingReport.isNull)
             => targetingReport' = targetingReport]_vars

----------------------------------------------------------------------------
(* Properties of the checksum script (SpecChecksums) *)

\* C24: once generateChecksums has recorded the hashes, a --verify run made
\* while a tracked file is missing or hashes to another value than the one
\* recorded returns a falsy result and exits non-zero, also when
\* data/checksums.json has been removed in between.
TamperingFailsVerification ==
    [][(/\ exitStatus'.op = "--verify"
        /\ recorded.present
        /\ \E f \in TrackedFiles :
               \/ ~disk[f].exists
               \/ calculateFileHash(disk[f]) # recorded.checksums[f].hash)
          => /\ ~exitStatus'.result.truthy
             /\ exitStatus'.code # 0]_vars

----------------------------------------------------------------------------
(* Properties of StaticDataManager.loadTDDatabase (SpecManager) *)

\* Caller c begins a call of loadTDDatabase in this step
Begins(c) == callers'[c].state = "waiting" /\ callers'[c] # callers[c]

\* The loads whose promise is pending
LoadsInFlight == { p \in 1..Len(promises) : promises[p].state = "pending" }

\* C29: at most one load of the TD database is in flight; a call made during
\* a load is given the promise of that load and starts none; once a load has
\* succeeded the cache keeps its data, no call starts a load, and every call
\* is given the cached data.
OneLoadSharedThenCached ==
    /\ [](Cardinality(LoadsInFlight) <= 1)
    /\ [](\A c \in Callers :
              (callers[c].received = "data" /\ callers[c].state = "idle")
                  => cache.has /\ callers[c].data = cache.data)
    /\ [][/\ cache.has => cache' = cache /\ Len(promises') = Len(promises)
          /\ \A c \in Callers :
                 Begins(c)
                     => /\ cache.has => /\ callers'[c].via = "cache"
                                        /\ callers'[c].promise = cache.data
                        /\ (~cache.has /\ LoadsInFlight # {})
                               => /\ callers'[c].via = "waiter"
                                  /\ callers'[c].promise \in LoadsInFlight
                                  /\ Len(promises') = Len(promises)]_vars

\* The one load has succeeded and is in the cache while a caller that joined
\* it in flight still waits for its outcome.
JoinedLoadSucceeded ==
    /\ Len(promises) = 1
    /\ cache.has
    /\ \E c \in Callers : callers[c].via = "waiter" /\ callers[c].promise = cache.data

\* C30: a caller whose load failed receives the error; only the data of a
\* load that succeeded is in the cache; a call is never given the promise of
\* a load that has already failed, and a call made when no load is in flight
\* and nothing is cached starts a fetch of its own.
FailedLoadNotReused ==
    /\ [](cache.has => promises[cache.data].state = "fulfilled")
    /\ [][/\ (microtasks # << >> /\ Head(microtasks).kind = "deliver")
                => callers'[Head(microtasks).caller].received =
                       IF promises[Head(microtasks).promise].state = "rejected"
                       THEN "error" ELSE "data"
          /\ \A c \in Callers :
                 Begins(c)
                     => /\ callers'[c].via = "waiter"
                               => promises[callers'[c].promise].state = "pending"
                        /\ (~cache.has /\ LoadsInFlight = {})
                               => /\ callers'[c].via = "loader"
                                  /\ Len(promises') = Len(promises) + 1
                                  /\ callers'[c].promise = Len(promises')
                                  /\ promises'[Len(promises')].fetch = "in flight"]_vars

\* The first load has failed, nothing is cached, and a caller that received
\* the error has started the second load.
FreshFetchAfterFailure ==
    /\ Len(promises) = 2
    /\ promises[1].state = "rejected"
    /\ promises[2].fetch = "in flight"
    /\ ~cache.has
    /\ \E c \in Callers :
           /\ callers[c].received = "error"
           /\ callers[c].via = "loader"
           /\ callers[c].promise = 2

====
